---- MODULE Spec2Model ----
(***************************************************************************)
(* A model of the MLT frame object (src/framework/mlt_frame.c): its        *)
(* attribute map, its three deferred-call stacks, the image and audio pull *)
(* algorithms with their fallback synthesis, and position bookkeeping.     *)
(*                                                                         *)
(* A frame is a record.  Attributes that may be absent from the attribute  *)
(* map are options: <<>> when absent, <<v>> when set.  Pointers are        *)
(* naturals, 0 being NULL.                                                 *)
(***************************************************************************)
EXTENDS Integers, Sequences, FiniteSets, TLC

VARIABLES frame, heap, ret, hist, pushedImage, pushedAudio, clones, closed

vars == <<frame, heap, ret, hist, pushedImage, pushedAudio, clones, closed>>

(***************************************************************************)
(* Bounds of the model.                                                    *)
(***************************************************************************)
MaxPos == 2
MaxSets == 3
MaxStack == 2
MaxAudioStack == 1
MaxPtr == 1
MaxInt == 1
MaxHeap == 2
MaxPulls == 1
MaxHandlers == 1
MaxClones == 1
MaxIds == 4
MaxAlphaSize == 4
MaxServices == 2
MaxImageSize == 6
MaxShallow == 2
MaxCloneHeap == 4
MaxWaveDim == 2

\* The frame rate of the producer a waveform is drawn for.
WaveFps == 8000

\* What the consumer asks for when it asks for something.
AskWidth == 8
AskHeight == 6
AskFrequency == 32000
AskChannels == 1
AskSamples == 3

\* The geometry of a frame made without a profile, and of the placeholder.
DefaultWidth == 720
DefaultHeight == 576

\* What a handler produces when it does not take the request: its own
\* geometry, in yuv422.
NativeWidth == 4
NativeHeight == 2

\* The parameters of synthesized silence.
DefaultSamples == 1920
DefaultChannels == 2
DefaultFrequency == 48000

\* What an audio handler produces when the request leaves it open.
NativeSamples == 2
NativeChannels == 1
NativeFrequency == 44100

PosValues == (0 - MaxPos)..MaxPos

NULL == 0

Max(a, b) == IF a < b THEN b ELSE a

(***************************************************************************)
(* The attribute map, as the frame uses it.                                *)
(***************************************************************************)

\* mlt_properties_get_position: the stored position, 0 when the key is absent.
mlt_properties_get_position(opt) == IF opt = <<>> THEN 0 ELSE opt[1]

\* mlt_properties_get: the value as a string, NULL when the key is absent.
\* Only its being NULL or not is observed.
mlt_properties_get_is_null(opt) == opt = <<>>

(***************************************************************************)
(* Memory.  heap[p] is the buffer at pointer p; frees counts the times it  *)
(* was released (0: live).  A blob is a binary attribute: its pointer, its *)
(* recorded size and whether a destructor came with it.                    *)
(***************************************************************************)
Alloc(hp, buf) == [heap |-> Append(hp, buf), ptr |-> Len(hp) + 1]

\* What a released buffer holds is no longer the program's: only the
\* number of releases is kept.
Release(hp, p) ==
    IF p \in 1..Len(hp)
    THEN [hp EXCEPT ![p] = [kind |-> "freed", frees |-> @.frees + 1]]
    ELSE hp

\* A destructor run on NULL releases nothing, so a NULL blob is kept
\* without one.
Blob(data, size, destroy) ==
    [data |-> data, size |-> size, destroy |-> destroy /\ data # NULL]

NoBlob == Blob(NULL, 0, FALSE)

\* mlt_properties_set_data drops the value it replaces: the old value's
\* destructor, when it has one, runs on the old pointer.
DropBlob(hp, old) == IF old.destroy THEN Release(hp, old.data) ELSE hp

\* An image buffer; fill says what was drawn into it.
ImageBuf(fill) == [kind |-> "image", frees |-> 0, fill |-> fill]

\* An audio buffer of size bytes.  Its samples are kept sparsely: nz maps
\* the (1-based) index of each non-zero sample to its value, so a buffer of
\* zeros has the empty nz.
AudioBuf(size, nz) == [kind |-> "audio", frees |-> 0, size |-> size, nz |-> nz]

Zeros == [i \in {} |-> 0]

\* What mlt_pool_alloc hands out before anything is written to it.
PoolJunk == [i \in {1} |-> 1]

\* memset(p, 0, bytes): 16-bit sample j lies in bytes 2j-1 and 2j.
Memset0(nz, bytes) == [i \in {j \in DOMAIN nz : 2 * j > bytes} |-> nz[i]]

\* (int16_t)(sample * value), value being halves / 2: C truncates toward 0.
ScaleSample(sample, halves) ==
    LET x == sample * halves
    IN  IF x >= 0 THEN x \div 2 ELSE 0 - ((0 - x) \div 2)

ScaleSamples(nz, count, halves) ==
    LET keep == {j \in DOMAIN nz : j > count \/ ScaleSample(nz[j], halves) # 0}
    IN  [i \in keep |-> IF i > count THEN nz[i] ELSE ScaleSample(nz[i], halves)]

\* mlt_audio_format_size
mlt_audio_format_size(format, samples, channels) ==
    CASE format = "s16" -> samples * channels * 2
      [] format \in {"s32", "s32le", "float", "f32le"} -> samples * channels * 4
      [] format = "u8" -> samples * channels
      [] OTHER -> 0

(***************************************************************************)
(* The deque.  A slot is the 8-byte union {void *addr; int value}: lo is   *)
(* the half an int occupies, hi the other half.  Storing a pointer writes  *)
(* both halves; storing an int writes lo and leaves in hi what the memory  *)
(* held (zero or not).  Model pointers fit the low half.                   *)
(***************************************************************************)
Front(s) == SubSeq(s, 1, Len(s) - 1)

Last(s) == s[Len(s)]

\* The pointer a slot reads as: an int over a non-zero upper half reads as
\* a wild (negative) address equal to no pointer of the model.
SlotAddr(slot) == IF slot.hi = 0 THEN slot.lo ELSE 0 - (slot.lo + 1)

SlotValue(slot) == slot.lo

mlt_deque_count(dq) == Len(dq)

mlt_deque_push_back(dq, item) == Append(dq, [lo |-> item, hi |-> 0])

mlt_deque_push_back_int(dq, item, stale) == Append(dq, [lo |-> item, hi |-> stale])

\* Each pop gives the deque left and the value returned.
mlt_deque_pop_back(dq) ==
    IF Len(dq) > 0
    THEN [dq |-> Front(dq), val |-> SlotAddr(Last(dq))]
    ELSE [dq |-> dq, val |-> NULL]

mlt_deque_pop_back_int(dq) ==
    IF Len(dq) > 0
    THEN [dq |-> Front(dq), val |-> SlotValue(Last(dq))]
    ELSE [dq |-> dq, val |-> 0]

(***************************************************************************)
(* Construction.                                                           *)
(***************************************************************************)
mlt_frame_init ==
    [ position          |-> <<0>>,
      original_position |-> <<>>,
      image             |-> NoBlob,
      width             |-> DefaultWidth,
      height            |-> DefaultHeight,
      format            |-> "none",
      alpha             |-> NoBlob,
      audio             |-> NoBlob,
      waveform          |-> NoBlob,
      audio_format      |-> "none",
      audio_frequency   |-> 0,
      audio_channels    |-> 0,
      audio_samples     |-> 0,
      test_image        |-> 0,
      test_audio        |-> 0,
      image_count       |-> 0,
      meta_volume       |-> <<>>,
      test_card_producer |-> NULL,
      test_card_frame   |-> <<>>,
      convert_image     |-> FALSE,
      convert_audio     |-> FALSE,
      unique            |-> <<>>,
      cloned_frame      |-> NULL,
      closed_services   |-> <<>>,
      ref_count         |-> 1,
      torn              |-> 0,
      stack_image       |-> <<>>,
      stack_audio       |-> <<>>,
      stack_service     |-> <<>> ]

(***************************************************************************)
(* The test-card predicates.                                               *)
(***************************************************************************)
\* An is_test_card that forgets the test_image flag.
is_test_card_no_flag(f) ==
    mlt_deque_count(f.stack_image) = 0 /\ f.image.data = NULL

\* An is_test_card that does not look at the image stack.
is_test_card_no_stack(f) == f.image.data = NULL \/ f.test_image # 0

mlt_frame_is_test_card(f) ==
    \/ (mlt_deque_count(f.stack_image) = 0 /\ f.image.data = NULL)
    \/ f.test_image # 0

mlt_frame_is_test_audio(f) ==
    \/ (mlt_deque_count(f.stack_audio) = 0 /\ f.audio.data = NULL)
    \/ f.test_audio # 0

(***************************************************************************)
(* Position.                                                               *)
(***************************************************************************)
\* A get_position that returns the stored value as it is.
get_position_unclamped(f) == mlt_properties_get_position(f.position)

mlt_frame_get_position(f) ==
    LET pos == mlt_properties_get_position(f.position)
    IN  IF pos < 0 THEN 0 ELSE pos

mlt_frame_original_position(f) ==
    LET pos == mlt_properties_get_position(f.original_position)
    IN  IF pos < 0 THEN 0 ELSE pos

\* A set_position that moves the original position on every call.
set_position_always(f, value) ==
    [f EXCEPT !.original_position = <<value>>, !.position = <<value>>]

mlt_frame_set_position(f, value) ==
    LET g == IF mlt_properties_get_is_null(f.original_position)
             THEN [f EXCEPT !.original_position = <<value>>]
             ELSE f
    IN  [g EXCEPT !.position = <<value>>]

(***************************************************************************)
(* Stack operations.  A push gives the frame after it; a pop gives the     *)
(* frame after it and the value returned.                                  *)
(***************************************************************************)
mlt_frame_push_get_image(f, get_image) ==
    [f EXCEPT !.stack_image = mlt_deque_push_back(@, get_image)]

mlt_frame_pop_get_image(f) ==
    LET r == mlt_deque_pop_back(f.stack_image)
    IN  [f |-> [f EXCEPT !.stack_image = r.dq], val |-> r.val]

mlt_frame_push_frame(f, that) ==
    [f EXCEPT !.stack_image = mlt_deque_push_back(@, that)]

mlt_frame_pop_frame(f) ==
    LET r == mlt_deque_pop_back(f.stack_image)
    IN  [f |-> [f EXCEPT !.stack_image = r.dq], val |-> r.val]

mlt_frame_push_service(f, that) ==
    [f EXCEPT !.stack_image = mlt_deque_push_back(@, that)]

mlt_frame_pop_service(f) ==
    LET r == mlt_deque_pop_back(f.stack_image)
    IN  [f |-> [f EXCEPT !.stack_image = r.dq], val |-> r.val]

mlt_frame_push_service_int(f, that, stale) ==
    [f EXCEPT !.stack_image = mlt_deque_push_back_int(@, that, stale)]

mlt_frame_pop_service_int(f) ==
    LET r == mlt_deque_pop_back_int(f.stack_image)
    IN  [f |-> [f EXCEPT !.stack_image = r.dq], val |-> r.val]

\* A push_audio that appends to the image stack.
push_audio_on_image(f, that) ==
    [f EXCEPT !.stack_image = mlt_deque_push_back(@, that)]

mlt_frame_push_audio(f, that) ==
    [f EXCEPT !.stack_audio = mlt_deque_push_back(@, that)]

\* A pop_audio that pops the image stack.
pop_audio_from_image(f) ==
    LET r == mlt_deque_pop_back(f.stack_image)
    IN  [f |-> [f EXCEPT !.stack_image = r.dq], val |-> r.val]

mlt_frame_pop_audio(f) ==
    LET r == mlt_deque_pop_back(f.stack_audio)
    IN  [f |-> [f EXCEPT !.stack_audio = r.dq], val |-> r.val]

(***************************************************************************)
(* Installing buffers.  These give the frame and the heap after the call.  *)
(***************************************************************************)
\* A set_image that leaves the image it replaces unreleased.
set_image_keeps_old(f, hp, image, size, destroy) ==
    [f    |-> [f EXCEPT !.image = Blob(image, size, destroy)],
     heap |-> hp]

mlt_frame_set_image(f, hp, image, size, destroy) ==
    [f    |-> [f EXCEPT !.image = Blob(image, size, destroy)],
     heap |-> DropBlob(hp, f.image)]

mlt_frame_set_audio(f, hp, buffer, format, size, destructor) ==
    [f    |-> [f EXCEPT !.audio_format = format,
                        !.audio = Blob(buffer, size, destructor)],
     heap |-> DropBlob(hp, f.audio)]

\* while (mlt_deque_pop_back(stack)) ; : the pop that returns NULL ends the
\* loop, having removed its slot when the deque was not empty.
RECURSIVE PopUntilNull(_)
PopUntilNull(dq) ==
    LET r == mlt_deque_pop_back(dq)
    IN  IF r.val # NULL THEN PopUntilNull(r.dq) ELSE r.dq

mlt_frame_replace_image(f, hp, image, format, width, height) ==
    [f    |-> [f EXCEPT !.stack_image = PopUntilNull(@),
                        !.image = Blob(image, 0, FALSE),
                        !.width = width,
                        !.height = height,
                        !.format = format],
     heap |-> DropBlob(hp, f.image)]

(***************************************************************************)
(* Destruction.  The last reference gone, the services left on the service *)
(* stack are closed and the attribute map is closed: every blob that has a *)
(* destructor is released, the cached test-card frame by mlt_frame_close.  *)
(* torn counts the times the frame was torn down.  The frame a shallow     *)
(* clone refers to ("_cloned_frame") is another frame of the state: its    *)
(* release is close_cloned_frame's.                                        *)
(***************************************************************************)

\* while (mlt_deque_peek_back(stack)) mlt_service_close(mlt_deque_pop_back(stack));
RECURSIVE CloseServices(_)
CloseServices(dq) ==
    IF Len(dq) > 0 /\ SlotAddr(Last(dq)) # NULL THEN CloseServices(Front(dq)) ELSE dq

\* The handles mlt_service_close is called on by that loop, in the order
\* of the calls.
RECURSIVE ServicesClosed(_)
ServicesClosed(dq) ==
    IF Len(dq) > 0 /\ SlotAddr(Last(dq)) # NULL
    THEN <<SlotAddr(Last(dq))>> \o ServicesClosed(Front(dq))
    ELSE <<>>

\* mlt_properties_close on each per-service sub-map of the frame.
RECURSIVE CloseUnique(_, _, _)
CloseUnique(hp, unique, ids) ==
    IF ids = {}
    THEN hp
    ELSE CloseUnique(Release(hp, unique[CHOOSE u \in ids : TRUE]), unique,
                     ids \ {CHOOSE u \in ids : TRUE})

\* The destructors of the attribute map's buffers and sub-maps.
DropAll(f, hp) ==
    CloseUnique(DropBlob(DropBlob(DropBlob(DropBlob(hp, f.image), f.alpha),
                                  f.audio), f.waveform),
                f.unique, DOMAIN f.unique)

\* A close that tears the frame down whatever the count.
close_always(f, hp) ==
    [f |-> [f EXCEPT !.ref_count = @ - 1, !.torn = @ + 1],
     heap |-> DropAll(f, hp)]

Reversed(s) == [i \in 1..Len(s) |-> s[Len(s) + 1 - i]]

\* A teardown that releases the service handles oldest first.
close_services_in_push_order(f, hp) ==
    IF f.ref_count - 1 <= 0
    THEN [f |-> [f EXCEPT !.ref_count = @ - 1,
                          !.torn = @ + 1,
                          !.closed_services = @ \o Reversed(ServicesClosed(f.stack_service)),
                          !.stack_service = CloseServices(@)],
          heap |-> DropAll(f, hp)]
    ELSE [f |-> [f EXCEPT !.ref_count = @ - 1], heap |-> hp]

RECURSIVE mlt_frame_close(_, _)
mlt_frame_close(f, hp) ==
    IF f.ref_count - 1 <= 0
    THEN LET h1 == DropAll(f, hp)
             h2 == IF f.test_card_frame = <<>>
                   THEN h1
                   ELSE mlt_frame_close(f.test_card_frame[1], h1).heap
         IN  [f |-> [f EXCEPT !.ref_count = @ - 1,
                              !.torn = @ + 1,
                              !.closed_services = @ \o ServicesClosed(f.stack_service),
                              !.stack_service = CloseServices(@)],
              heap |-> h2]
    ELSE [f |-> [f EXCEPT !.ref_count = @ - 1], heap |-> hp]

\* mlt_frame_close of a frame c whose "_cloned_frame", when it has one, is
\* src: closing c's attribute map runs mlt_frame_close on src.
CloseResult(c, src, hp) == [c |-> c, src |-> src, heap |-> hp]

close_cloned_frame(c, s) == CloseResult(c, s.f, s.heap)

close_with_source(c, src, own) ==
    IF c.ref_count - 1 <= 0 /\ c.cloned_frame # NULL
    THEN close_cloned_frame(own.f, mlt_frame_close(src, own.heap))
    ELSE CloseResult(own.f, src, own.heap)

close_clone(c, src, hp) == close_with_source(c, src, mlt_frame_close(c, hp))

(***************************************************************************)
(* Collaborators of the image pull.  Their code is outside the frame; an   *)
(* oracle o says how each behaves in one pull:                             *)
(*   o.h    what the popped get_image handler does,                        *)
(*   o.conv whether the convert_image hook converts or fails,              *)
(*   o.tf   what the test-card producer hands out, o.tfconv whether that   *)
(*          frame has a converter, o.sub the oracle of that frame's pull.  *)
(* The in-out parameters of a pull are a record io: hasbuf says whether    *)
(* the buffer out-parameter is non-null, buffer is *buffer.                *)
(***************************************************************************)

\* A get_image handler.  ok_store makes an image of its own geometry and
\* installs it on the frame; ok_nostore makes what was asked for and only
\* returns it; nobuf succeeds without a buffer; err fails.
CallGetImage(f, hp, io, outcome) ==
    CASE outcome = "ok_store" ->
           LET a == Alloc(hp, ImageBuf("data"))
               s == mlt_frame_set_image(f, a.heap, a.ptr, 0, TRUE)
           IN  [f |-> s.f, heap |-> s.heap, error |-> 0,
                io |-> [io EXCEPT !.buffer = a.ptr, !.format = "yuv422",
                                  !.width = NativeWidth, !.height = NativeHeight]]
      [] outcome = "ok_nostore" ->
           LET fmt == IF io.format = "none" THEN "yuv422" ELSE io.format
               w   == IF io.width = 0 THEN NativeWidth ELSE io.width
               h   == IF io.height = 0 THEN NativeHeight ELSE io.height
               a   == Alloc(hp, ImageBuf("data"))
           IN  [f |-> f, heap |-> a.heap, error |-> 0,
                io |-> [io EXCEPT !.buffer = a.ptr, !.format = fmt,
                                  !.width = w, !.height = h]]
      [] outcome = "nobuf" ->
           [f |-> f, heap |-> hp, error |-> 0, io |-> [io EXCEPT !.buffer = NULL]]
      [] OTHER ->
           [f |-> f, heap |-> hp, error |-> 1, io |-> io]

\* The result of a step of a pull: the frame, the heap, the error code and
\* the in-out parameters.
Result(f, hp, error, io) == [f |-> f, heap |-> hp, error |-> error, io |-> io]

\* The convert_image hook, run on r.f with r.io: when it converts, it makes
\* a new image in the requested format, installs it on the frame (which
\* drops the image the frame held) and returns it; when the formats agree
\* or it fails, nothing changes.  Its result code is not read by the frame.
ConvertedImage(r, a, requested_format) ==
    Result(mlt_frame_set_image(r.f, a.heap, a.ptr, 0, TRUE).f,
           mlt_frame_set_image(r.f, a.heap, a.ptr, 0, TRUE).heap,
           r.error,
           [r.io EXCEPT !.buffer = a.ptr, !.format = requested_format])

ConvertImage(r, requested_format, outcome) ==
    IF outcome = "ok" /\ r.io.format # requested_format
    THEN ConvertedImage(r,
                        Alloc(r.heap,
                              ImageBuf(IF /\ r.io.buffer \in 1..Len(r.heap)
                                          /\ r.heap[r.io.buffer].kind = "image"
                                       THEN r.heap[r.io.buffer].fill
                                       ELSE "data")),
                        requested_format)
    ELSE r

\* The frame mlt_service_get_frame gives for the test-card producer: a new
\* frame, with the producer's handler on its image stack or with nothing.
TestFrame(o) ==
    LET b == [mlt_frame_init EXCEPT !.convert_image = o.tfconv]
    IN  IF o.tf = "handler" THEN mlt_frame_push_get_image(b, 1) ELSE b

(***************************************************************************)
(* The image pull.                                                         *)
(***************************************************************************)

\* A placeholder that is not made: the error is returned.
placeholder_missing(f, hp, io) ==
    [f |-> f, heap |-> hp, error |-> 1, io |-> io]

\* The synthesized placeholder (the "if (error && buffer)" block).
\* A placeholder that is a checkerboard whatever the audio is.
placeholder_always_checker(f, hp, io) ==
    LET width  == IF io.width = 0 THEN DefaultWidth ELSE io.width
        height == IF io.height = 0 THEN DefaultHeight ELSE io.height
        format == IF io.format \in {"none", "movit", "opengl_texture"}
                  THEN "yuv422"
                  ELSE io.format
        a      == Alloc(hp, ImageBuf("checker"))
        s      == mlt_frame_set_image(f, a.heap, a.ptr, 0, TRUE)
    IN  [f    |-> [s.f EXCEPT !.format = format, !.width = width,
                              !.height = height, !.test_image = 1],
         heap |-> s.heap,
         error |-> 0,
         io   |-> [io EXCEPT !.buffer = a.ptr, !.format = format,
                             !.width = width, !.height = height]]

generate_placeholder(f, hp, io) ==
    LET width  == IF io.width = 0 THEN DefaultWidth ELSE io.width
        height == IF io.height = 0 THEN DefaultHeight ELSE io.height
        format == IF io.format \in {"none", "movit", "opengl_texture"}
                  THEN "yuv422"
                  ELSE io.format
        fill   == IF f.test_audio # 0 THEN "white" ELSE "checker"
        a      == Alloc(hp, ImageBuf(fill))
        s      == mlt_frame_set_image(f, a.heap, a.ptr, 0, TRUE)
    IN  [f    |-> [s.f EXCEPT !.format = format, !.width = width,
                              !.height = height, !.test_image = 1],
         heap |-> s.heap,
         error |-> 0,
         io   |-> [io EXCEPT !.buffer = a.ptr, !.format = format,
                             !.width = width, !.height = height]]

\* mlt_properties_set_int(properties, "width" / "height", ...)
StoreSize(r) == [r EXCEPT !.f.width = r.io.width, !.f.height = r.io.height]

\* mlt_properties_set_int(properties, "format", *format)
StoreFormat(r) == [r EXCEPT !.f.format = r.io.format]

\* if (convert_image && requested_format != mlt_image_none) convert_image(...)
MaybeConvertImage(r, requested_format, outcome) ==
    IF r.f.convert_image /\ requested_format # "none"
    THEN ConvertImage(r, requested_format, outcome)
    ELSE r

\* Setting "test_card_frame" drops the frame that was there.
DropTestCardFrame(f, hp) ==
    IF f.test_card_frame = <<>>
    THEN hp
    ELSE mlt_frame_close(f.test_card_frame[1], hp).heap

\* The test-card frame's image, c being r after that frame's converter:
\* the consumer's frame takes its size and format and keeps the frame.
test_card_store(f, r, c) ==
    Result([f EXCEPT !.test_card_frame = <<c.f>>,
                     !.width = r.io.width,
                     !.height = r.io.height,
                     !.format = c.io.format],
           c.heap, r.error, c.io)

\* What follows the test-card frame's pull, whose result is r.
test_card_done(f, r, requested_format, outcome, hasbuf) ==
    IF r.error = 0 /\ hasbuf /\ r.io.buffer # NULL
    THEN test_card_store(f, r, MaybeConvertImage(r, requested_format, outcome))
    ELSE Result([f EXCEPT !.test_card_frame = <<r.f>>], r.heap, r.error, r.io)

\* if (error && buffer) { the placeholder }
placeholder_if_error(v, hasbuf) ==
    IF v.error # 0 /\ hasbuf
    THEN generate_placeholder(v.f, v.heap, v.io)
    ELSE v

\* The cached image and its attributes as the pull's output.
cached_image(f, hp, io) ==
    Result(f, hp, 0, [io EXCEPT !.format = f.format,
                                !.buffer = f.image.data,
                                !.width = f.width,
                                !.height = f.height])

\* The cached branch after its reads: the converter, when there is one.
cached_done(r, requested_format, outcome) ==
    IF r.f.convert_image /\ r.io.buffer # NULL /\ requested_format # "none"
    THEN StoreFormat(ConvertImage(r, requested_format, outcome))
    ELSE r

RECURSIVE mlt_frame_get_image(_, _, _, _)
RECURSIVE generate_test_image(_, _, _, _)

\* The if (producer) block.
test_card_image(f, hp, io, o) ==
    IF f.test_card_producer # NULL
    THEN IF o.tf # "null"
         THEN test_card_done(f,
                             mlt_frame_get_image(TestFrame(o), DropTestCardFrame(f, hp),
                                                 io, o.sub),
                             io.format, o.sub.conv, io.hasbuf)
         ELSE Result([f EXCEPT !.test_card_producer = NULL], hp, 1, io)
    ELSE Result(f, hp, 1, io)

generate_test_image(f, hp, io, o) ==
    placeholder_if_error(test_card_image(f, hp, io, o), io.hasbuf)

\* The handler branch after the call, whose result is h.
handler_done(h, requested_format, o) ==
    IF h.error = 0 /\ h.io.hasbuf /\ h.io.buffer # NULL
    THEN StoreFormat(MaybeConvertImage(StoreSize(h), requested_format, o.conv))
    ELSE generate_test_image(h.f, h.heap, h.io, o)

\* mlt_frame_get_image after its pop, whose result is p.
get_image_popped(p, hp, io, o) ==
    IF p.val # NULL
    THEN handler_done(CallGetImage([p.f EXCEPT !.image_count = @ - 1], hp, io, o.h),
                      io.format, o)
    ELSE IF p.f.image.data # NULL /\ io.hasbuf
    THEN cached_done(cached_image(p.f, hp, io), io.format, o.conv)
    ELSE generate_test_image(p.f, hp, io, o)

mlt_frame_get_image(f, hp, io, o) ==
    get_image_popped(mlt_frame_pop_get_image(f), hp, io, o)

(***************************************************************************)
(* Collaborators of the audio pull.  The in-out parameters are a record io *)
(* of buffer, format, frequency, channels and samples; the oracle gives    *)
(* o.h (the handler), o.data (the samples it produces) and o.conv (the     *)
(* convert_audio hook).                                                    *)
(***************************************************************************)

\* An audio handler.  It produces NativeSamples samples on NativeChannels
\* channels, at the requested rate when one is given: 16-bit and installed
\* on the frame (ok_s16), float and installed (ok_float), or 16-bit and only
\* returned (ok_nostore); or it fails, leaving the parameters as they were.
CallGetAudio(f, hp, io, outcome, data) ==
    LET format == IF outcome = "ok_float" THEN "f32le" ELSE "s16"
        freq   == IF io.frequency > 0 THEN io.frequency ELSE NativeFrequency
        size   == mlt_audio_format_size(format, NativeSamples, NativeChannels)
        a      == Alloc(hp, AudioBuf(size, data))
        out    == [io EXCEPT !.buffer = a.ptr, !.format = format,
                             !.frequency = freq, !.channels = NativeChannels,
                             !.samples = NativeSamples]
    IN  CASE outcome \in {"ok_s16", "ok_float"} ->
               LET s == mlt_frame_set_audio(f, a.heap, a.ptr, format, size, TRUE)
               IN  Result(s.f, s.heap, 0, out)
          [] outcome = "ok_nostore" ->
               Result(f, a.heap, 0, out)
          [] OTHER ->
               Result(f, hp, 1, io)

\* The convert_audio hook, run on r.f with r.io: when it converts, it makes
\* a new buffer in the requested format holding the same samples and
\* installs it on the frame.
ConvertedAudio(r, a, requested_format, size) ==
    Result(mlt_frame_set_audio(r.f, a.heap, a.ptr, requested_format, size, TRUE).f,
           mlt_frame_set_audio(r.f, a.heap, a.ptr, requested_format, size, TRUE).heap,
           r.error,
           [r.io EXCEPT !.buffer = a.ptr, !.format = requested_format])

ConvertAudioTo(r, requested_format, size) ==
    ConvertedAudio(r, Alloc(r.heap, AudioBuf(size, r.heap[r.io.buffer].nz)),
                   requested_format, size)

ConvertAudio(r, requested_format, outcome) ==
    IF /\ outcome = "ok"
       /\ r.io.format # requested_format
       /\ r.io.buffer \in 1..Len(r.heap)
       /\ r.heap[r.io.buffer].kind = "audio"
    THEN ConvertAudioTo(r, requested_format,
                        mlt_audio_format_size(requested_format, r.io.samples,
                                              r.io.channels))
    ELSE r

(***************************************************************************)
(* The audio pull.                                                         *)
(***************************************************************************)

\* The samples of the buffer at p, as the buffer holds them.
SamplesOf(hp, p) == IF p \in 1..Len(hp) /\ hp[p].kind = "audio" THEN hp[p].nz ELSE Zeros

\* An allocation that is not cleared.
silence_not_cleared(size) == PoolJunk

\* The samples of the silence buffer: mlt_pool_alloc(size), then
\* memset(*buffer, 0, size).
silence_samples(size) == Memset0(PoolJunk, size)

\* The final else of mlt_frame_get_audio: silence at defaulted parameters.
generate_silence(f, hp, io) ==
    LET samples   == IF io.samples <= 0 THEN DefaultSamples ELSE io.samples
        channels  == IF io.channels <= 0 THEN DefaultChannels ELSE io.channels
        frequency == IF io.frequency <= 0 THEN DefaultFrequency ELSE io.frequency
        format    == IF io.format = "none" THEN "s16" ELSE io.format
        size      == mlt_audio_format_size(format, samples, channels)
        a         == IF size # 0
                     THEN Alloc(hp, AudioBuf(size, silence_samples(size)))
                     ELSE [heap |-> hp, ptr |-> NULL]
    IN  Result([f EXCEPT !.audio_frequency = frequency,
                         !.audio_channels = channels,
                         !.audio_samples = samples,
                         !.audio_format = format,
                         !.audio = Blob(a.ptr, size, TRUE),
                         !.test_audio = 1],
               DropBlob(a.heap, f.audio),
               0,
               [io EXCEPT !.buffer = a.ptr, !.format = format,
                          !.frequency = frequency, !.channels = channels,
                          !.samples = samples])

\* The one-shot volume (the block after "This does not belong here"),
\* halves being twice the value of meta.volume.
scale_buffer(buf, total, halves) ==
    IF buf.kind # "audio"
    THEN buf
    ELSE IF halves = 0
    THEN [buf EXCEPT !.nz = Memset0(@, total * 2)]
    ELSE IF halves # 2
    THEN [buf EXCEPT !.nz = ScaleSamples(@, total, halves)]
    ELSE buf

\* A volume block that leaves meta.volume set.
volume_not_consumed(w) ==
    IF w.io.format = "s16" /\ w.f.meta_volume # <<>> /\ w.io.buffer # NULL
    THEN Result(w.f,
                IF w.io.buffer \in 1..Len(w.heap)
                THEN [w.heap EXCEPT ![w.io.buffer] =
                        scale_buffer(@, w.io.samples * w.io.channels, w.f.meta_volume[1])]
                ELSE w.heap,
                w.error, w.io)
    ELSE w

\* A volume block that does not look at the format.
volume_any_format(w) ==
    IF w.f.meta_volume # <<>> /\ w.io.buffer # NULL
    THEN Result([w.f EXCEPT !.meta_volume = <<>>],
                IF w.io.buffer \in 1..Len(w.heap)
                THEN [w.heap EXCEPT ![w.io.buffer] =
                        scale_buffer(@, w.io.samples * w.io.channels, w.f.meta_volume[1])]
                ELSE w.heap,
                w.error, w.io)
    ELSE w

apply_volume(w) ==
    IF w.io.format = "s16" /\ w.f.meta_volume # <<>> /\ w.io.buffer # NULL
    THEN Result([w.f EXCEPT !.meta_volume = <<>>],
                IF w.io.buffer \in 1..Len(w.heap)
                THEN [w.heap EXCEPT ![w.io.buffer] =
                        scale_buffer(@, w.io.samples * w.io.channels, w.f.meta_volume[1])]
                ELSE w.heap,
                w.error, w.io)
    ELSE w

\* mlt_properties_set_int(properties, "audio_frequency" ..., "audio_format")
StoreAudioParams(r) ==
    [r EXCEPT !.f.audio_frequency = r.io.frequency,
              !.f.audio_channels = r.io.channels,
              !.f.audio_samples = r.io.samples,
              !.f.audio_format = r.io.format]

\* if (convert_audio && *buffer && requested_format != mlt_audio_none)
MaybeConvertAudio(r, requested_format, outcome) ==
    IF r.f.convert_audio /\ r.io.buffer # NULL /\ requested_format # "none"
    THEN ConvertAudio(r, requested_format, outcome)
    ELSE r

\* The cached audio and its attributes as the pull's output.
cached_audio(f, hp, io) ==
    Result(f, hp, 0, [io EXCEPT !.buffer = f.audio.data,
                                !.format = f.audio_format,
                                !.frequency = f.audio_frequency,
                                !.channels = f.audio_channels,
                                !.samples = f.audio_samples])

\* A pull that calls the handler it popped whatever test_audio holds.
get_audio_popped_unmuted(p, hp, io, o) ==
    IF p.val # NULL
    THEN MaybeConvertAudio(StoreAudioParams(CallGetAudio(p.f, hp, io, o.h, o.data)),
                           io.format, o.conv)
    ELSE IF p.f.audio.data # NULL
    THEN MaybeConvertAudio(cached_audio(p.f, hp, io), io.format, o.conv)
    ELSE generate_silence(p.f, hp, io)

\* mlt_frame_get_audio after its pop, whose result is p: the three
\* branches.  What the handler returns is not read.
get_audio_popped(p, hp, io, o) ==
    IF p.f.test_audio = 0 /\ p.val # NULL
    THEN MaybeConvertAudio(StoreAudioParams(CallGetAudio(p.f, hp, io, o.h, o.data)),
                           io.format, o.conv)
    ELSE IF p.f.audio.data # NULL
    THEN MaybeConvertAudio(cached_audio(p.f, hp, io), io.format, o.conv)
    ELSE generate_silence(p.f, hp, io)

\* return 0;
return_zero(w) == [w EXCEPT !.error = 0]

\* A pull that leaves the handler of a muted frame on the stack.
get_audio_pop_unless_muted(f, hp, io, o) ==
    IF f.test_audio # 0
    THEN return_zero(apply_volume(get_audio_popped([f |-> f, val |-> NULL], hp, io, o)))
    ELSE return_zero(apply_volume(get_audio_popped(mlt_frame_pop_audio(f), hp, io, o)))

mlt_frame_get_audio(f, hp, io, o) ==
    return_zero(apply_volume(get_audio_popped(mlt_frame_pop_audio(f), hp, io, o)))

(***************************************************************************)
(* The per-service sub-maps.  unique maps the unique id of a service to    *)
(* the sub-map the frame holds for it.                                     *)
(***************************************************************************)
PropertiesBuf == [kind |-> "properties", frees |-> 0]

UniqueResult(f, hp, val) == [f |-> f, heap |-> hp, val |-> val]

\* mlt_properties_new and mlt_properties_set_data(frame_props, unique, ...)
unique_created(f, a, unique) ==
    UniqueResult([f EXCEPT !.unique = [u \in DOMAIN @ \cup {unique} |->
                                          IF u = unique THEN a.ptr ELSE @[u]]],
                 a.heap, a.ptr)

mlt_frame_unique_properties(f, hp, unique) ==
    IF unique \in DOMAIN f.unique
    THEN UniqueResult(f, hp, f.unique[unique])
    ELSE unique_created(f, Alloc(hp, PropertiesBuf), unique)

\* A lookup that creates what it does not find.
get_unique_creates(f, hp, unique) ==
    IF unique \in DOMAIN f.unique
    THEN UniqueResult(f, hp, f.unique[unique])
    ELSE unique_created(f, Alloc(hp, PropertiesBuf), unique)

mlt_frame_get_unique_properties(f, hp, unique) ==
    UniqueResult(f, hp, IF unique \in DOMAIN f.unique THEN f.unique[unique] ELSE NULL)

(***************************************************************************)
(* Cloning.  A clone is a new frame; a step of a clone is the record of    *)
(* the new frame c, the source src and the heap.  A copy takes the bytes   *)
(* the recorded size covers.                                               *)
(***************************************************************************)

\* mlt_properties_inherit: the attributes that have a value as a string,
\* which the binary ones have not.
mlt_properties_inherit(c, f) ==
    [c EXCEPT !.position = f.position,
              !.original_position = f.original_position,
              !.width = f.width,
              !.height = f.height,
              !.format = f.format,
              !.audio_format = f.audio_format,
              !.audio_frequency = f.audio_frequency,
              !.audio_channels = f.audio_channels,
              !.audio_samples = f.audio_samples,
              !.test_image = f.test_image,
              !.test_audio = f.test_audio,
              !.image_count = f.image_count,
              !.meta_volume = f.meta_volume]

\* mlt_image_format_size, without the line of padding it adds.
mlt_image_format_size(format, width, height) ==
    CASE format = "rgb" -> width * height * 3
      [] format = "rgba" -> width * height * 4
      [] format = "yuv422" -> width * height * 2
      [] OTHER -> 0

CloneResult(c, src, hp) == [c |-> c, src |-> src, heap |-> hp]

\* A clone that takes the source's stacks with it.
clone_init_with_stacks(f, hp) ==
    CloneResult([mlt_properties_inherit(mlt_frame_init, f)
                    EXCEPT !.stack_image = f.stack_image,
                           !.stack_audio = f.stack_audio,
                           !.stack_service = f.stack_service],
                f, hp)

\* mlt_frame_init(NULL), mlt_properties_inherit and the carried-over data.
clone_init(f, hp) == CloneResult(mlt_properties_inherit(mlt_frame_init, f), f, hp)

\* memcpy(copy, data, size) into a new allocation.
CopyOf(hp, p, size) ==
    IF p \in 1..Len(hp) /\ hp[p].kind = "audio"
    THEN AudioBuf(size, [i \in {j \in DOMAIN hp[p].nz : 2 * j <= size} |-> hp[p].nz[i]])
    ELSE IF p \in 1..Len(hp) /\ hp[p].kind = "image"
    THEN ImageBuf(hp[p].fill)
    ELSE ImageBuf("junk")

AudioSize(f) ==
    IF f.audio.size # 0
    THEN f.audio.size
    ELSE mlt_audio_format_size(f.audio_format, f.audio_samples, f.audio_channels)

ImageSize(f) ==
    IF f.image.size # 0
    THEN f.image.size
    ELSE mlt_image_format_size(f.format, f.width, f.height)

mlt_frame_set_alpha(f, hp, alpha, size, destroy) ==
    [f    |-> [f EXCEPT !.alpha = Blob(alpha, size, destroy)],
     heap |-> DropBlob(hp, f.alpha)]

mlt_frame_get_alpha(f) ==
    IF f.alpha.data # NULL /\ f.format = "rgba" THEN NULL ELSE f.alpha.data

\* What the caller's size holds after mlt_frame_get_alpha_size(self, &size):
\* mlt_properties_get_data stores the length of the entry through size; the
\* "size = 0" of the rgba branch assigns the parameter, not what it points
\* to.
alpha_size_stored(f) == f.alpha.size

\* mlt_frame_get_alpha_size: the alpha channel, none when the format is rgba.
mlt_frame_get_alpha_size(f) ==
    IF f.alpha.data # NULL /\ f.format = "rgba" THEN NULL ELSE f.alpha.data

AlphaSize(f) == IF f.alpha.size # 0 THEN f.alpha.size ELSE f.width * f.height

audio_copied(r, a, size) ==
    CloneResult([r.c EXCEPT !.audio = Blob(a.ptr, size, TRUE)], r.src, a.heap)

image_copied(r, a, size) ==
    CloneResult([r.c EXCEPT !.image = Blob(a.ptr, size, TRUE)], r.src, a.heap)

alpha_copied(r, a, size) ==
    CloneResult([r.c EXCEPT !.alpha = Blob(a.ptr, size, TRUE)], r.src, a.heap)

\* The deep copy of the audio.
deep_audio(r) ==
    IF r.src.audio.data # NULL
    THEN audio_copied(r, Alloc(r.heap, CopyOf(r.heap, r.src.audio.data, AudioSize(r.src))),
                      AudioSize(r.src))
    ELSE r

\* A deep copy that leaves the alpha channel behind.
no_deep_alpha(r) == r

deep_alpha(r) ==
    IF mlt_frame_get_alpha_size(r.src) # NULL
    THEN alpha_copied(r, Alloc(r.heap, CopyOf(r.heap, r.src.alpha.data, AlphaSize(r.src))),
                      AlphaSize(r.src))
    ELSE r

\* A deep copy that copies an image of any format.
deep_image_any_format(r) ==
    IF r.src.image.data # NULL
    THEN deep_alpha(image_copied(r, Alloc(r.heap, CopyOf(r.heap, r.src.image.data,
                                                         ImageSize(r.src))),
                                 ImageSize(r.src)))
    ELSE r

\* The deep copy of the image and, with it, of the alpha channel.
deep_image(r) ==
    IF r.src.image.data # NULL /\ r.src.format # "movit"
    THEN deep_alpha(image_copied(r, Alloc(r.heap, CopyOf(r.heap, r.src.image.data,
                                                         ImageSize(r.src))),
                                 ImageSize(r.src)))
    ELSE r

\* A shallow clone that takes no reference on the source.
no_reference(r) == [r EXCEPT !.c.cloned_frame = 1]

\* mlt_properties_inc_ref(properties) and the owned "_cloned_frame".
take_reference(r) == [r EXCEPT !.src.ref_count = @ + 1, !.c.cloned_frame = 1]

shallow_audio(r) ==
    [r EXCEPT !.c.audio = Blob(r.src.audio.data, r.src.audio.size, FALSE)]

shallow_image(r) ==
    [r EXCEPT !.c.image = Blob(r.src.image.data, r.src.image.size, FALSE),
              !.c.alpha = Blob(mlt_frame_get_alpha_size(r.src), r.src.alpha.size, FALSE)]

mlt_frame_clone(f, hp, is_deep) ==
    IF is_deep
    THEN deep_image(deep_audio(clone_init(f, hp)))
    ELSE shallow_image(shallow_audio(take_reference(clone_init(f, hp))))

mlt_frame_clone_audio(f, hp, is_deep) ==
    IF is_deep
    THEN deep_audio(clone_init(f, hp))
    ELSE shallow_audio(take_reference(clone_init(f, hp)))

mlt_frame_clone_image(f, hp, is_deep) ==
    IF is_deep
    THEN deep_image(clone_init(f, hp))
    ELSE shallow_image(take_reference(clone_init(f, hp)))

(***************************************************************************)
(* The waveform.  A bitmap is kept as the function from its byte offsets   *)
(* to its bytes.  A store outside the bitmap, or a read of samples the     *)
(* buffer does not hold, is recorded in wild.                              *)
(***************************************************************************)
WaveFrequency == 16000

WaveChannels == 2

Abs(a) == IF a < 0 THEN 0 - a ELSE a

\* a / b of C: the quotient truncated toward zero.
CDiv(a, b) ==
    IF (a < 0) = (b < 0) THEN Abs(a) \div Abs(b) ELSE 0 - (Abs(a) \div Abs(b))

\* mlt_audio_calculate_frame_samples at a frame rate the rate is a multiple of.
mlt_audio_calculate_frame_samples(fps, frequency, position) == frequency \div fps

\* while (samples < w) frequency += 16000;
RECURSIVE waveform_frequency(_, _, _, _)
waveform_frequency(fps, frequency, position, w) ==
    IF mlt_audio_calculate_frame_samples(fps, frequency, position) < w
    THEN waveform_frequency(fps, frequency + WaveFrequency, position, w)
    ELSE frequency

\* What mlt_frame_get_waveform asks of the audio pull.
WaveAsk(f, fps, frequency) ==
    [buffer |-> NULL, format |-> "s16", frequency |-> frequency,
     channels |-> WaveChannels,
     samples |-> mlt_audio_calculate_frame_samples(fps, frequency,
                                                   mlt_frame_get_position(f))]

BitmapBuf(size) ==
    [kind |-> "bitmap", frees |-> 0, size |-> size, px |-> [x \in 0..(size - 1) |-> 0]]

\* One store of the line: p[w * k] = 0xFF at its peak, p[w * k] + gray
\* (as an unsigned char) elsewhere.
Plot(bm, at, peak, gray) ==
    IF at \in DOMAIN bm.px
    THEN [bm EXCEPT !.px[at] = IF peak THEN 255 ELSE (@ + gray) % 256]
    ELSE [bm EXCEPT !.wild = TRUE]

\* for (k = 0; k < height + 1; k++)
RECURSIVE DrawLine(_, _, _, _, _, _, _)
DrawLine(bm, base, w, height, negative, gray, k) ==
    IF k < height + 1
    THEN DrawLine(Plot(bm, base + w * k,
                       IF negative THEN k = 0 ELSE k = height, gray),
                  base, w, height, negative, gray, k + 1)
    ELSE bm

\* int height = h * pcm_magnitude / channels / 2 / 32768;
LineHeight(h, sample, channels) ==
    CDiv(CDiv(CDiv(h * Abs(sample), channels), 2), 32768)

\* int displacement = h * (j * 2 + 1) / channels / 2 - (*pcm < 0 ? 0 : height);
Displacement(h, j, sample, channels) ==
    CDiv(CDiv(h * (j * 2 + 1), channels), 2)
        - (IF sample < 0 THEN 0 ELSE LineHeight(h, sample, channels))

\* The body of the inner loop for sample n (counted from 0) of the stream.
DrawSample(bm, sample, n, w, h, channels, skip, gray) ==
    DrawLine(bm,
             CDiv(n \div channels, skip)
                 + Displacement(h, n % channels, sample, channels) * w,
             w, LineHeight(h, sample, channels), sample < 0, gray, 0)

\* for (i = 0; pcm < ubound; i++) for (j = 0; j < channels; j++, pcm++)
RECURSIVE Render(_, _, _, _, _, _, _, _, _)
Render(bm, nz, n, total, w, h, channels, skip, gray) ==
    IF n < total
    THEN Render(DrawSample(bm, IF n + 1 \in DOMAIN nz THEN nz[n + 1] ELSE 0,
                           n, w, h, channels, skip, gray),
                nz, n + 1, total, w, h, channels, skip, gray)
    ELSE bm

\* skip = samples / w; skip = !skip ? 1 : skip;
WaveSkip(samples, w) == IF CDiv(samples, w) = 0 THEN 1 ELSE CDiv(samples, w)

\* unsigned char gray = 0xFF / skip;
WaveGray(skip) == CDiv(255, skip) % 256

\* Whether the stream of total samples can be read from the buffer at pcm.
Readable(hp, pcm, total) ==
    \/ total <= 0
    \/ /\ pcm \in 1..Len(hp)
       /\ hp[pcm].kind = "audio"
       /\ 2 * total <= hp[pcm].size

\* The rendering into the bitmap at a.ptr of the audio the pull r returned.
rendered(r, a, w, h) ==
    IF Readable(r.heap, r.io.buffer, r.io.samples * r.io.channels)
    THEN Render([px |-> a.heap[a.ptr].px, wild |-> FALSE],
                SamplesOf(r.heap, r.io.buffer), 0,
                r.io.samples * r.io.channels, w, h, r.io.channels,
                WaveSkip(r.io.samples, w), WaveGray(WaveSkip(r.io.samples, w)))
    ELSE [px |-> a.heap[a.ptr].px, wild |-> TRUE]

\* The result of mlt_frame_get_waveform: the frame, the heap, the pointer
\* returned and whether the rendering went outside its buffers.
WaveResult(f, hp, val, wild) == [f |-> f, heap |-> hp, val |-> val, wild |-> wild]

\* From mlt_pool_alloc on: the bitmap is cleared, stored as "waveform"
\* (which drops the one stored before) and drawn.
waveform_drawn(r, a, bm, size) ==
    WaveResult([r.f EXCEPT !.waveform = Blob(a.ptr, size, TRUE)],
               DropBlob([a.heap EXCEPT ![a.ptr].px = bm.px], r.f.waveform),
               a.ptr, bm.wild)

waveform_render(r, a, w, h) == waveform_drawn(r, a, rendered(r, a, w, h), w * h)

\* A size test that lets an area of zero through: an empty bitmap is stored.
waveform_zero_area_stored(r, w, h) ==
    IF w * h < 0
    THEN WaveResult(r.f, r.heap, NULL, FALSE)
    ELSE IF w * h = 0
    THEN waveform_drawn(r, Alloc(r.heap, BitmapBuf(0)), [px |-> <<>>, wild |-> FALSE], 0)
    ELSE waveform_render(r, Alloc(r.heap, BitmapBuf(w * h)), w, h)

\* mlt_frame_get_waveform after the audio pull, whose result is r.
waveform_of_audio(r, w, h) ==
    IF w * h <= 0
    THEN WaveResult(r.f, r.heap, NULL, FALSE)
    ELSE waveform_render(r, Alloc(r.heap, BitmapBuf(w * h)), w, h)

mlt_frame_get_waveform(f, hp, fps, w, h, o) ==
    waveform_of_audio(
        mlt_frame_get_audio(f, hp,
                            WaveAsk(f, fps,
                                    waveform_frequency(fps, WaveFrequency,
                                                       mlt_frame_get_position(f), w)),
                            o),
        w, h)

(***************************************************************************)
(* The state: the frame under test, the heap, what the last call returned  *)
(* (ret), and the history the properties speak of: the positions set so    *)
(* far (hist) and the values pushed and not yet popped (pushedImage,       *)
(* pushedAudio); the frames cloned from the frame (clones) and whether the *)
(* frame's owner has closed it (closed).                                   *)
(***************************************************************************)
Init ==
    /\ frame = mlt_frame_init
    /\ heap = <<>>
    /\ ret = [op |-> "init"]
    /\ hist = <<>>
    /\ pushedImage = <<>>
    /\ pushedAudio = <<>>
    /\ clones = <<>>
    /\ closed = FALSE

Ptrs == 0..MaxPtr

\* The one get_image (or get_audio) function the collaborators push; what
\* it does when called is the oracle's.
Handlers == {1}

Frames == 1..MaxPtr

Pushed(kind, v) == [kind |-> kind, v |-> v]

PopGhost(s) == IF s = <<>> THEN s ELSE Front(s)

(***************************************************************************)
(* Position.                                                               *)
(***************************************************************************)
SetPosition ==
    \E value \in PosValues :
        /\ Len(hist) < MaxSets
        /\ frame' = mlt_frame_set_position(frame, value)
        /\ hist' = Append(hist, value)
        /\ ret' = [op |-> "set_position", val |-> 0]
        /\ UNCHANGED <<clones, closed, heap, pushedImage, pushedAudio>>

GetPosition ==
    /\ ret' = [op |-> "get_position", val |-> mlt_frame_get_position(frame)]
    /\ UNCHANGED <<clones, closed, frame, heap, hist, pushedImage, pushedAudio>>

OriginalPosition ==
    /\ ret' = [op |-> "original_position", val |-> mlt_frame_original_position(frame)]
    /\ UNCHANGED <<clones, closed, frame, heap, hist, pushedImage, pushedAudio>>

NextPos == SetPosition \/ GetPosition \/ OriginalPosition

SpecPos == Init /\ [][NextPos]_vars

Stored(opt) == IF opt = <<>> THEN 0 ELSE opt[1]

\* C1: on a fresh frame, after set_position calls with P1..Pn (n >= 1) the
\* original position is the one the first call fixed and the current
\* position is the last one set: original_position reads P1 and
\* get_position reads Pn, for non-negative values.
C1_OriginalFixedByFirstSet ==
    hist # <<>> =>
        /\ frame.original_position = <<hist[1]>>
        /\ frame.position = <<Last(hist)>>
        /\ (hist[1] >= 0 => mlt_frame_original_position(frame) = hist[1])
        /\ (Last(hist) >= 0 => mlt_frame_get_position(frame) = Last(hist))
        /\ (ret.op = "original_position" /\ hist[1] >= 0 => ret.val = hist[1])
        /\ (ret.op = "get_position" /\ Last(hist) >= 0 => ret.val = Last(hist))

C1_Witness ==
    /\ Len(hist) >= 2
    /\ hist[1] > 0
    /\ Last(hist) >= 0
    /\ Last(hist) # hist[1]
    /\ ret.op = "original_position"
    /\ ret.val = hist[1]

\* C2: get_position and original_position never return a negative value:
\* whatever value v is stored (0 when none was ever set), the value read
\* is max(v, 0).
C2_ReadsClamped ==
    /\ mlt_frame_get_position(frame) = Max(Stored(frame.position), 0)
    /\ mlt_frame_original_position(frame) = Max(Stored(frame.original_position), 0)
    /\ (ret.op \in {"get_position", "original_position"} => ret.val >= 0)

C2_Witness ==
    /\ Stored(frame.position) < 0
    /\ Stored(frame.original_position) < 0
    /\ ret.op = "get_position"
    /\ ret.val = 0

(***************************************************************************)
(* The stacks.  ret.had is the number of values on the stack before a pop. *)
(***************************************************************************)
PushGetImage ==
    \E get_image \in Handlers :
        /\ Len(frame.stack_image) < MaxStack
        /\ frame' = mlt_frame_push_get_image(frame, get_image)
        /\ pushedImage' = Append(pushedImage, Pushed("addr", get_image))
        /\ ret' = [op |-> "push_get_image", val |-> 0]
        /\ UNCHANGED <<clones, closed, heap, hist, pushedAudio>>

PopGetImage ==
    LET r == mlt_frame_pop_get_image(frame)
    IN  /\ frame' = r.f
        /\ pushedImage' = PopGhost(pushedImage)
        /\ ret' = [op |-> "pop_get_image", val |-> r.val, had |-> Len(pushedImage)]
        /\ UNCHANGED <<clones, closed, heap, hist, pushedAudio>>

PushFrame ==
    \E that \in Frames :
        /\ Len(frame.stack_image) < MaxStack
        /\ frame' = mlt_frame_push_frame(frame, that)
        /\ pushedImage' = Append(pushedImage, Pushed("addr", that))
        /\ ret' = [op |-> "push_frame", val |-> 0]
        /\ UNCHANGED <<clones, closed, heap, hist, pushedAudio>>

PopFrame ==
    LET r == mlt_frame_pop_frame(frame)
    IN  /\ frame' = r.f
        /\ pushedImage' = PopGhost(pushedImage)
        /\ ret' = [op |-> "pop_frame", val |-> r.val, had |-> Len(pushedImage)]
        /\ UNCHANGED <<clones, closed, heap, hist, pushedAudio>>

PushService ==
    \E that \in Ptrs :
        /\ Len(frame.stack_image) < MaxStack
        /\ frame' = mlt_frame_push_service(frame, that)
        /\ pushedImage' = Append(pushedImage, Pushed("addr", that))
        /\ ret' = [op |-> "push_service", val |-> 0]
        /\ UNCHANGED <<clones, closed, heap, hist, pushedAudio>>

PopService ==
    LET r == mlt_frame_pop_service(frame)
    IN  /\ frame' = r.f
        /\ pushedImage' = PopGhost(pushedImage)
        /\ ret' = [op |-> "pop_service", val |-> r.val, had |-> Len(pushedImage)]
        /\ UNCHANGED <<clones, closed, heap, hist, pushedAudio>>

PushServiceInt ==
    \E that \in 0..MaxInt, stale \in {0, 1} :
        /\ Len(frame.stack_image) < MaxStack
        /\ frame' = mlt_frame_push_service_int(frame, that, stale)
        /\ pushedImage' = Append(pushedImage, Pushed("value", that))
        /\ ret' = [op |-> "push_service_int", val |-> 0]
        /\ UNCHANGED <<clones, closed, heap, hist, pushedAudio>>

PopServiceInt ==
    LET r == mlt_frame_pop_service_int(frame)
    IN  /\ frame' = r.f
        /\ pushedImage' = PopGhost(pushedImage)
        /\ ret' = [op |-> "pop_service_int", val |-> r.val, had |-> Len(pushedImage)]
        /\ UNCHANGED <<clones, closed, heap, hist, pushedAudio>>

PushAudio ==
    \E that \in Handlers :
        /\ Len(frame.stack_audio) < MaxAudioStack
        /\ frame' = mlt_frame_push_audio(frame, that)
        /\ pushedAudio' = Append(pushedAudio, Pushed("addr", that))
        /\ ret' = [op |-> "push_audio", val |-> 0]
        /\ UNCHANGED <<clones, closed, heap, hist, pushedImage>>

PopAudio ==
    LET r == mlt_frame_pop_audio(frame)
    IN  /\ frame' = r.f
        /\ pushedAudio' = PopGhost(pushedAudio)
        /\ ret' = [op |-> "pop_audio", val |-> r.val, had |-> Len(pushedAudio)]
        /\ UNCHANGED <<clones, closed, heap, hist, pushedImage>>

NextStack ==
    \/ PushGetImage \/ PopGetImage
    \/ PushFrame \/ PopFrame
    \/ PushService \/ PopService
    \/ PushServiceInt \/ PopServiceInt
    \/ PushAudio \/ PopAudio

SpecStack == Init /\ [][NextStack]_vars

ImagePushes == {"push_get_image", "push_frame", "push_service", "push_service_int"}

ImagePops == {"pop_get_image", "pop_frame", "pop_service", "pop_service_int"}

\* Whether a pop reads the slot as the type it was pushed with.
SameType(op, pushed) == (op = "pop_service_int") <=> (pushed.kind = "value")

C6_EmptyPop ==
    [][ /\ (ret'.op \in ImagePops /\ frame.stack_image = <<>> =>
               ret'.val = 0 /\ frame' = frame /\ heap' = heap)
        /\ (ret'.op = "pop_audio" /\ frame.stack_audio = <<>> =>
               ret'.val = NULL /\ frame' = frame /\ heap' = heap)
      ]_vars

C6_Witness ==
    /\ ret.op = "pop_audio"
    /\ ret.had = 0
    /\ ret.val = NULL
    /\ frame.stack_audio = <<>>
    /\ frame.stack_image # <<>>

(***************************************************************************)
(* Pulls, setters and the collaborators' settings.                         *)
(***************************************************************************)
AskFormats == {"none", "rgb"}

AskDims == {<<0, 0>>, <<AskWidth, AskHeight>>}

\* What a caller of mlt_frame_get_image passes: a buffer pointer with a
\* format and a size that are each given or left unspecified, or no
\* buffer pointer.
ImageAsks ==
    {[hasbuf |-> TRUE, buffer |-> NULL, format |-> fmt, width |-> d[1], height |-> d[2]] :
        fmt \in AskFormats, d \in AskDims}
    \cup {[hasbuf |-> FALSE, buffer |-> NULL, format |-> "none", width |-> 0, height |-> 0]}

NoOracle == [h |-> "none", conv |-> "none", tf |-> "none", tfconv |-> FALSE]

HandlerOutcomes(hasbuf) ==
    IF hasbuf THEN {"ok_store", "ok_nostore", "nobuf", "err"} ELSE {"err"}

\* What the popped handler may do: a handler that is handed no buffer
\* pointer has nowhere to return an image.
ImageOutcomes(f, hasbuf) ==
    IF f.stack_image # <<>> /\ SlotAddr(Last(f.stack_image)) # NULL
    THEN HandlerOutcomes(hasbuf)
    ELSE {"none"}

\* The hook is consulted only for a requested format.
ConvOutcomes(f, format) ==
    IF f.convert_image /\ format # "none" THEN {"ok", "fail"} ELSE {"none"}

\* Whether the pull goes on to generate_test_image.
Synthesizes(f, hasbuf, x) ==
    \/ x \in {"nobuf", "err"}
    \/ x = "none" /\ ~(f.image.data # NULL /\ hasbuf)

\* The test-card frame of a pull: none wanted, none given ("null"), a
\* frame with nothing on it ("bare") or one with the producer's handler;
\* tfconv says whether it has a converter (one that fails is one that is
\* absent); sub is the oracle of its own pull.  It has no test-card
\* producer of its own.
TestCards(f, hasbuf, x) ==
    IF f.test_card_producer # NULL /\ Synthesizes(f, hasbuf, x)
    THEN {[tf |-> "null", tfconv |-> FALSE, sub |-> NoOracle],
          [tf |-> "bare", tfconv |-> FALSE, sub |-> NoOracle]}
         \cup {[tf |-> "handler", tfconv |-> FALSE, sub |-> [NoOracle EXCEPT !.h = y]] :
                  y \in HandlerOutcomes(hasbuf)}
         \cup {[tf |-> "handler", tfconv |-> TRUE,
                sub |-> [NoOracle EXCEPT !.h = "ok_store", !.conv = "ok"]]}
    ELSE {[tf |-> "none", tfconv |-> FALSE, sub |-> NoOracle]}

ImageOracles(f, hasbuf, format) ==
    UNION { { [h |-> x, conv |-> c, tf |-> t.tf, tfconv |-> t.tfconv, sub |-> t.sub] :
                c \in ConvOutcomes(f, format), t \in TestCards(f, hasbuf, x) } :
            x \in ImageOutcomes(f, hasbuf) }

GetImageOf(asks) ==
    \E io \in asks :
    \E o \in ImageOracles(frame, io.hasbuf, io.format) :
        LET r == mlt_frame_get_image(frame, heap, io, o)
        IN  /\ Len(r.heap) <= MaxHeap
            /\ r.f.image_count >= 0 - MaxPulls
            /\ frame' = r.f
            /\ heap' = r.heap
            /\ pushedImage' = PopGhost(pushedImage)
            /\ ret' = [op |-> "get_image", error |-> r.error, hasbuf |-> io.hasbuf,
                       buffer |-> r.io.buffer, format |-> r.io.format,
                       width |-> r.io.width, height |-> r.io.height,
                       h |-> o.h,
                       fresh |-> frame.stack_image = <<>> /\ frame.image.data = NULL]
            /\ UNCHANGED <<clones, closed, hist, pushedAudio>>

GetImage == GetImageOf(ImageAsks)

\* The caller's image: none, or a buffer of its own it may hand over
\* together with a destructor.
SetImage ==
    \E given \in BOOLEAN, destroy \in BOOLEAN :
        LET a == IF given
                 THEN Alloc(heap, ImageBuf("data"))
                 ELSE [heap |-> heap, ptr |-> NULL]
            r == mlt_frame_set_image(frame, a.heap, a.ptr, 0, destroy)
        IN  /\ Len(r.heap) <= MaxHeap
            /\ frame' = r.f
            /\ heap' = r.heap
            /\ ret' = [op |-> "set_image", val |-> 0]
            /\ UNCHANGED <<clones, closed, hist, pushedImage, pushedAudio>>

ReplaceImage ==
    \E given \in BOOLEAN :
        LET a == IF given
                 THEN Alloc(heap, ImageBuf("data"))
                 ELSE [heap |-> heap, ptr |-> NULL]
            r == mlt_frame_replace_image(frame, a.heap, a.ptr, "rgb", AskWidth, AskHeight)
        IN  /\ Len(r.heap) <= MaxHeap
            /\ frame' = r.f
            /\ heap' = r.heap
            /\ pushedImage' = SubSeq(pushedImage, 1, Len(r.f.stack_image))
            /\ ret' = [op |-> "replace_image", val |-> 0]
            /\ UNCHANGED <<clones, closed, hist, pushedAudio>>

\* A consumer registers its test-card producer on the frame.
SetTestCardProducer ==
    /\ frame.test_card_producer = NULL
    /\ frame' = [frame EXCEPT !.test_card_producer = 1]
    /\ ret' = [op |-> "set_test_card_producer", val |-> 0]
    /\ UNCHANGED <<clones, closed, heap, hist, pushedImage, pushedAudio>>

\* A filter attaches the image converter hook.
AttachConvertImage ==
    /\ ~frame.convert_image
    /\ frame' = [frame EXCEPT !.convert_image = TRUE]
    /\ ret' = [op |-> "attach_convert_image", val |-> 0]
    /\ UNCHANGED <<clones, closed, heap, hist, pushedImage, pushedAudio>>

\* A producer or filter pushes its handler; MaxHandlers bounds how many
\* wait on the frame at once.
PushHandler ==
    /\ Len(frame.stack_image) < MaxHandlers
    /\ PushGetImage

\* The image side of a frame that has no test-card producer.
Next ==
    \/ PushHandler
    \/ GetImage
    \/ SetImage
    \/ ReplaceImage
    \/ AttachConvertImage

Spec == Init /\ [][Next]_vars

\* The image side of a frame a consumer may give a test-card producer;
\* of the converters only the test-card frame's is attached here.
NextTestCard ==
    \/ SetTestCardProducer
    \/ PushHandler
    \/ GetImage

SpecTestCard == Init /\ [][NextTestCard]_vars

(***************************************************************************)
(* The audio side.                                                         *)
(***************************************************************************)
AudioAsk(format, frequency, channels, samples) ==
    [buffer |-> NULL, format |-> format, frequency |-> frequency,
     channels |-> channels, samples |-> samples]

\* What a caller of mlt_frame_get_audio passes: nothing specified (zeros,
\* or negative counts), everything specified, or one parameter alone.
AudioAsks ==
    {AudioAsk("none", 0, 0, 0),
     AudioAsk("none", 0 - 1, 0 - 1, 0 - 1),
     AudioAsk("f32le", AskFrequency, AskChannels, AskSamples),
     AudioAsk("f32le", 0, 0, 0),
     AudioAsk("none", AskFrequency, 0, 0),
     AudioAsk("none", 0, AskChannels, 0),
     AudioAsk("none", 0, 0, AskSamples)}

\* The samples a handler produces: silence, or a quiet and a full-scale one.
AudioData == {Zeros, [i \in {1, 2} |-> IF i = 1 THEN 3 ELSE 0 - 32768]}

\* The handler is called when one is popped and the frame is not flagged
\* as test audio; the hook is consulted only for a requested format.
AudioOracles(f, format) ==
    LET called == /\ f.stack_audio # <<>>
                  /\ SlotAddr(Last(f.stack_audio)) # NULL
                  /\ f.test_audio = 0
        hs     == IF called
                  THEN {[h |-> "fail", data |-> Zeros]}
                       \cup {[h |-> x, data |-> d] :
                               x \in {"ok_s16", "ok_float", "ok_nostore"}, d \in AudioData}
                  ELSE {[h |-> "none", data |-> Zeros]}
        cs     == IF f.convert_audio /\ format # "none" THEN {"ok", "fail"} ELSE {"none"}
    IN  {[h |-> x.h, data |-> x.data, conv |-> c] : x \in hs, c \in cs}

GetAudioOf(asks) ==
    \E io \in asks :
    \E o \in AudioOracles(frame, io.format) :
        LET r == mlt_frame_get_audio(frame, heap, io, o)
        IN  /\ Len(r.heap) <= MaxHeap
            /\ frame' = r.f
            /\ heap' = r.heap
            /\ pushedAudio' = PopGhost(pushedAudio)
            /\ ret' = [op |-> "get_audio", error |-> r.error,
                       buffer |-> r.io.buffer, format |-> r.io.format,
                       frequency |-> r.io.frequency, channels |-> r.io.channels,
                       samples |-> r.io.samples,
                       h |-> o.h, ask |-> io, o |-> o,
                       fresh |-> frame.stack_audio = <<>> /\ frame.audio.data = NULL]
            /\ UNCHANGED <<clones, closed, hist, pushedImage>>

GetAudio == GetAudioOf(AudioAsks)

\* The caller's audio: none, or a 16-bit buffer of its own handed over
\* with a destructor.
SetAudio ==
    \E given \in BOOLEAN :
        LET size == mlt_audio_format_size("s16", NativeSamples, NativeChannels)
            a    == IF given
                    THEN Alloc(heap, AudioBuf(size, Zeros))
                    ELSE [heap |-> heap, ptr |-> NULL]
            r    == mlt_frame_set_audio(frame, a.heap, a.ptr, "s16",
                                        IF given THEN size ELSE 0, TRUE)
        IN  /\ Len(r.heap) <= MaxHeap
            /\ frame' = r.f
            /\ heap' = r.heap
            /\ ret' = [op |-> "set_audio", val |-> 0]
            /\ UNCHANGED <<clones, closed, hist, pushedImage, pushedAudio>>

\* A filter attaches the audio converter hook.
AttachConvertAudio ==
    /\ ~frame.convert_audio
    /\ frame' = [frame EXCEPT !.convert_audio = TRUE]
    /\ ret' = [op |-> "attach_convert_audio", val |-> 0]
    /\ UNCHANGED <<clones, closed, heap, hist, pushedImage, pushedAudio>>

NextAudio ==
    \/ PushAudio
    \/ GetAudio
    \/ SetAudio
    \/ AttachConvertAudio

SpecAudio == Init /\ [][NextAudio]_vars

(***************************************************************************)
(* The one-shot volume.  A filter sets meta.volume on the frame; the value *)
(* is kept as its double: 0 is 0.0, 1 is 0.5 and 2 is 1.0.                 *)
(***************************************************************************)
Volumes == {0, 1, 2}

SetVolume ==
    \E halves \in Volumes :
        /\ frame.meta_volume = <<>>
        /\ frame' = [frame EXCEPT !.meta_volume = <<halves>>]
        /\ ret' = [op |-> "set_volume", val |-> 0]
        /\ UNCHANGED <<clones, closed, heap, hist, pushedImage, pushedAudio>>

\* The pulls of a consumer that asks for 16-bit audio or for whatever there is.
GetAudioS16 ==
    GetAudioOf({AudioAsk("none", 0, 0, 0),
                AudioAsk("s16", AskFrequency, AskChannels, AskSamples)})

NextVolume ==
    \/ PushAudio
    \/ SetVolume
    \/ GetAudioS16

SpecVolume == Init /\ [][NextVolume]_vars

(***************************************************************************)
(* The waveform of the frame's audio.  An audio handler here produces      *)
(* 16-bit samples or fails.  When the rendering goes outside its buffers   *)
(* the behaviour is undefined: the bitmap comes out as drawn or as it was  *)
(* cleared.                                                                *)
(***************************************************************************)
\* A negative, a zero, the least and the greatest extent asked for.
WaveDims == {0 - 1, 0, 1, MaxWaveDim}

WaveOracles(f) == {o \in AudioOracles(f, "s16") : o.h \in {"none", "ok_s16", "fail"}}

Cleared(hp, p) == [hp EXCEPT ![p].px = [x \in DOMAIN @ |-> 0]]

WaveOutcomes(r) == IF r.wild THEN {r.heap, Cleared(r.heap, r.val)} ELSE {r.heap}

GetWaveform ==
    \E w \in WaveDims, h \in WaveDims :
    \E o \in WaveOracles(frame) :
        LET r == mlt_frame_get_waveform(frame, heap, WaveFps, w, h, o)
        IN  /\ Len(r.heap) <= MaxHeap
            /\ frame' = r.f
            /\ \E hp \in WaveOutcomes(r) : heap' = hp
            /\ pushedAudio' = PopGhost(pushedAudio)
            /\ ret' = [op |-> "get_waveform", val |-> r.val, w |-> w, h |-> h,
                       wild |-> r.wild, h_audio |-> o.h,
                       data |-> o.data]
            /\ UNCHANGED <<clones, closed, hist, pushedImage>>

NextWave ==
    \/ PushAudio
    \/ GetWaveform

SpecWave == Init /\ [][NextWave]_vars

(***************************************************************************)
(* Both sides at once, with the two queries.                               *)
(***************************************************************************)
IsTestCard ==
    /\ ret' = [op |-> "is_test_card", val |-> mlt_frame_is_test_card(frame)]
    /\ UNCHANGED <<clones, closed, frame, heap, hist, pushedImage, pushedAudio>>

IsTestAudio ==
    /\ ret' = [op |-> "is_test_audio", val |-> mlt_frame_is_test_audio(frame)]
    /\ UNCHANGED <<clones, closed, frame, heap, hist, pushedImage, pushedAudio>>

\* The pulls of a consumer that specifies nothing.
GetImageDefault ==
    GetImageOf({[hasbuf |-> TRUE, buffer |-> NULL, format |-> "none",
                 width |-> 0, height |-> 0]})

GetAudioDefault == GetAudioOf({AudioAsk("none", 0, 0, 0)})

NextTest ==
    \/ PushHandler
    \/ PushAudio
    \/ GetImageDefault
    \/ GetAudioDefault
    \/ IsTestCard
    \/ IsTestAudio

SpecTest == Init /\ [][NextTest]_vars

(***************************************************************************)
(* Clones and closes.  The owner of the frame sets it up, clones it and    *)
(* closes it once; each clone is closed once by whoever asked for it.      *)
(* Nobody uses a frame after giving up its reference to it.                *)
(***************************************************************************)
CloneKinds == {"full", "audio", "image"}

CloneOf(kind, f, hp, is_deep) ==
    CASE kind = "full" -> mlt_frame_clone(f, hp, is_deep)
      [] kind = "audio" -> mlt_frame_clone_audio(f, hp, is_deep)
      [] OTHER -> mlt_frame_clone_image(f, hp, is_deep)

CloneAs(depths, most) ==
    \E kind \in CloneKinds, is_deep \in depths :
        LET r == CloneOf(kind, frame, heap, is_deep)
        IN  /\ ~closed
            /\ Len(clones) < most
            /\ Len(r.heap) <= MaxCloneHeap
            /\ clones' = Append(clones, r.c)
            /\ frame' = r.src
            /\ heap' = r.heap
            /\ ret' = [op |-> "clone", kind |-> kind, is_deep |-> is_deep]
            /\ UNCHANGED <<closed, hist, pushedImage, pushedAudio>>

Clone == CloneAs(BOOLEAN, MaxClones)

CloneShallow == CloneAs({FALSE}, MaxShallow)

CloneDeep == CloneAs({TRUE}, MaxClones)

\* The owner gives up the frame.
CloseFrame ==
    LET r == mlt_frame_close(frame, heap)
    IN  /\ ~closed
        /\ closed' = TRUE
        /\ frame' = r.f
        /\ heap' = r.heap
        /\ ret' = [op |-> "close", val |-> 0]
        /\ UNCHANGED <<clones, hist, pushedImage, pushedAudio>>

CloseClone ==
    \E i \in 1..Len(clones) :
        LET r == close_clone(clones[i], frame, heap)
        IN  /\ clones[i].ref_count > 0
            /\ clones' = [clones EXCEPT ![i] = r.c]
            /\ frame' = r.src
            /\ heap' = r.heap
            /\ ret' = [op |-> "close_clone", val |-> i]
            /\ UNCHANGED <<closed, hist, pushedImage, pushedAudio>>

\* The owner draws into the frame's image.
WriteImage ==
    /\ ~closed
    /\ frame.image.data \in 1..Len(heap)
    /\ heap[frame.image.data].kind = "image"
    /\ heap[frame.image.data].fill # "edited"
    /\ heap' = [heap EXCEPT ![frame.image.data].fill = "edited"]
    /\ ret' = [op |-> "write_image", val |-> 0]
    /\ UNCHANGED <<frame, clones, closed, hist, pushedImage, pushedAudio>>

\* A producer records the format of the image it set.
SetFormat ==
    \E format \in {"rgb", "movit"} :
        /\ ~closed
        /\ frame.format = "none"
        /\ frame' = [frame EXCEPT !.format = format]
        /\ ret' = [op |-> "set_format", val |-> 0]
        /\ UNCHANGED <<heap, clones, closed, hist, pushedImage, pushedAudio>>

\* A producer leaves a service on mlt_frame_service_stack(frame).
PushStackService ==
    \E service \in Frames :
        /\ ~closed
        /\ Len(frame.stack_service) < MaxAudioStack
        /\ frame' = [frame EXCEPT !.stack_service = mlt_deque_push_back(@, service)]
        /\ ret' = [op |-> "push_stack_service", val |-> 0]
        /\ UNCHANGED <<heap, clones, closed, hist, pushedImage, pushedAudio>>

\* A frame set up by its producer, its deep clones, and what the owner
\* does to it afterwards.
NextDeep ==
    \/ (~closed /\ frame.image.data = NULL /\ SetImage)
    \/ (~closed /\ frame.audio.data = NULL /\ SetAudio)
    \/ (~closed /\ clones # <<>> /\ ReplaceImage)
    \/ SetFormat
    \/ WriteImage
    \/ CloneDeep
    \/ CloseFrame

SpecDeep == Init /\ [][NextDeep]_vars

\* Every way a frame comes to hold a buffer, every clone and the closes.
NextOwn ==
    \/ (~closed /\ SetImage)
    \/ (~closed /\ GetImageDefault)
    \/ (~closed /\ GetAudioDefault)
    \/ Clone
    \/ CloseFrame
    \/ CloseClone

SpecOwn == Init /\ [][NextOwn]_vars

\* A frame shared with its shallow clones.
NextShallow ==
    \/ (~closed /\ frame.image.data = NULL /\ SetImage)
    \/ (~closed /\ frame.audio.data = NULL /\ SetAudio)
    \/ CloneShallow
    \/ CloseFrame
    \/ CloseClone

SpecShallow == Init /\ [][NextShallow]_vars

\* A frame with work waiting on its stacks, and its clones.
NextCloneStacks ==
    \/ (~closed /\ PushHandler)
    \/ (~closed /\ PushAudio)
    \/ (~closed /\ frame.image.data = NULL /\ SetImage)
    \/ PushStackService
    \/ Clone

SpecCloneStacks == Init /\ [][NextCloneStacks]_vars

(***************************************************************************)
(* Replacing the image of a frame whose image stack holds whatever its     *)
(* collaborators pushed.  The pull looked at is the one that follows the   *)
(* replacement.                                                            *)
(***************************************************************************)
GetImageAfterReplace ==
    /\ ret.op = "replace_image"
    /\ GetImageDefault

NextReplace ==
    \/ PushGetImage
    \/ PushFrame
    \/ PushService
    \/ PushServiceInt
    \/ ReplaceImage
    \/ GetImageAfterReplace

SpecReplace == Init /\ [][NextReplace]_vars

(***************************************************************************)
(* The services of a frame ask for their sub-maps.                         *)
(***************************************************************************)
UniqueIds == 1..MaxIds

UniqueProperties ==
    \E unique \in UniqueIds :
        LET r == mlt_frame_unique_properties(frame, heap, unique)
        IN  /\ ~closed
            /\ frame' = r.f
            /\ heap' = r.heap
            /\ ret' = [op |-> "unique_properties", id |-> unique, val |-> r.val]
            /\ UNCHANGED <<clones, closed, hist, pushedImage, pushedAudio>>

GetUniqueProperties ==
    \E unique \in UniqueIds :
        LET r == mlt_frame_get_unique_properties(frame, heap, unique)
        IN  /\ ~closed
            /\ frame' = r.f
            /\ heap' = r.heap
            /\ ret' = [op |-> "get_unique_properties", id |-> unique, val |-> r.val]
            /\ UNCHANGED <<clones, closed, hist, pushedImage, pushedAudio>>

NextUnique ==
    \/ UniqueProperties
    \/ GetUniqueProperties
    \/ CloseFrame

SpecUnique == Init /\ [][NextUnique]_vars

(***************************************************************************)
(* The alpha channel and the image format.                                 *)
(***************************************************************************)
AlphaBuf == [kind |-> "alpha", frees |-> 0]

SetAlpha ==
    \E given \in BOOLEAN, size \in {0, MaxAlphaSize}, destroy \in BOOLEAN :
        LET a == IF given
                 THEN Alloc(heap, AlphaBuf)
                 ELSE [heap |-> heap, ptr |-> NULL]
            r == mlt_frame_set_alpha(frame, a.heap, a.ptr, size, destroy)
        IN  /\ Len(r.heap) <= MaxHeap
            /\ frame' = r.f
            /\ heap' = r.heap
            /\ ret' = [op |-> "set_alpha", val |-> 0]
            /\ UNCHANGED <<clones, closed, hist, pushedImage, pushedAudio>>

SetImageFormat ==
    \E format \in {"rgb", "rgba"} :
        /\ frame' = [frame EXCEPT !.format = format]
        /\ ret' = [op |-> "set_format", val |-> 0]
        /\ UNCHANGED <<heap, clones, closed, hist, pushedImage, pushedAudio>>

GetAlpha ==
    /\ ret' = [op |-> "get_alpha", val |-> mlt_frame_get_alpha(frame)]
    /\ UNCHANGED <<frame, heap, clones, closed, hist, pushedImage, pushedAudio>>

GetAlphaSize ==
    /\ ret' = [op |-> "get_alpha_size", val |-> mlt_frame_get_alpha_size(frame),
               size |-> alpha_size_stored(frame)]
    /\ UNCHANGED <<frame, heap, clones, closed, hist, pushedImage, pushedAudio>>

NextAlpha ==
    \/ SetAlpha
    \/ SetImageFormat
    \/ GetAlpha
    \/ GetAlphaSize

SpecAlpha == Init /\ [][NextAlpha]_vars

(***************************************************************************)
(* The muted frame.  The handler on the stack is one that would produce    *)
(* audio if it were called: what it would do is offered to the pull        *)
(* whatever the frame's flag holds.                                        *)
(***************************************************************************)
PresentOracles(f) ==
    IF f.stack_audio # <<>> /\ SlotAddr(Last(f.stack_audio)) # NULL
    THEN {[h |-> x, data |-> d, conv |-> "none"] :
             x \in {"ok_s16", "ok_nostore"}, d \in AudioData}
    ELSE {[h |-> "none", data |-> Zeros, conv |-> "none"]}

MutedAsks == {AudioAsk("none", 0, 0, 0),
              AudioAsk("f32le", AskFrequency, AskChannels, AskSamples)}

PullAudio ==
    \E io \in MutedAsks :
    \E o \in PresentOracles(frame) :
        LET r == mlt_frame_get_audio(frame, heap, io, o)
        IN  /\ Len(r.heap) <= MaxHeap
            /\ frame' = r.f
            /\ heap' = r.heap
            /\ pushedAudio' = PopGhost(pushedAudio)
            /\ ret' = [op |-> "get_audio", error |-> r.error,
                       buffer |-> r.io.buffer, format |-> r.io.format,
                       frequency |-> r.io.frequency, channels |-> r.io.channels,
                       samples |-> r.io.samples,
                       h |-> o.h, ask |-> io, muted |-> frame.test_audio # 0]
            /\ UNCHANGED <<clones, closed, hist, pushedImage>>

\* A consumer mutes the frame or clears the flag.
SetTestAudio ==
    \E v \in {0, 1} :
        /\ frame.test_audio # v
        /\ frame' = [frame EXCEPT !.test_audio = v]
        /\ ret' = [op |-> "set_test_audio", val |-> v]
        /\ UNCHANGED <<heap, clones, closed, hist, pushedImage, pushedAudio>>

NextMuted ==
    \/ PushAudio
    \/ SetTestAudio
    \/ PullAudio

SpecMuted == Init /\ [][NextMuted]_vars

(***************************************************************************)
(* The placeholder of a frame that has no test-card producer: pulls of     *)
(* both sides, with a geometry left on the frame by a replaced image.      *)
(***************************************************************************)
PlaceholderAsks == {io \in ImageAsks : io.hasbuf}

PullImage ==
    \E io \in PlaceholderAsks :
    \E o \in ImageOracles(frame, io.hasbuf, io.format) :
        LET r == mlt_frame_get_image(frame, heap, io, o)
        IN  /\ Len(r.heap) <= MaxHeap
            /\ frame' = r.f
            /\ heap' = r.heap
            /\ pushedImage' = PopGhost(pushedImage)
            /\ ret' = [op |-> "get_image", error |-> r.error,
                       buffer |-> r.io.buffer, format |-> r.io.format,
                       width |-> r.io.width, height |-> r.io.height,
                       ask |-> io]
            /\ UNCHANGED <<clones, closed, hist, pushedAudio>>

NextPlaceholder ==
    \/ PushHandler
    \/ ReplaceImage
    \/ PullImage
    \/ GetAudioDefault

SpecPlaceholder == Init /\ [][NextPlaceholder]_vars

(***************************************************************************)
(* The service stack of a frame that is cloned and closed.                 *)
(***************************************************************************)
Services == 1..MaxServices

\* A collaborator hands the frame a service to release.
PushOwnedService ==
    \E service \in Services :
        /\ ~closed
        /\ Len(frame.stack_service) < MaxStack
        /\ frame' = [frame EXCEPT !.stack_service = mlt_deque_push_back(@, service)]
        /\ ret' = [op |-> "push_stack_service", val |-> 0]
        /\ UNCHANGED <<heap, clones, closed, hist, pushedImage, pushedAudio>>

NextServices ==
    \/ PushOwnedService
    \/ CloneShallow
    \/ CloseFrame
    \/ CloseClone

SpecServices == Init /\ [][NextServices]_vars

(***************************************************************************)
(* Deep clones of frames whose image and alpha were stored with or without *)
(* a recorded size, in each format.                                        *)
(***************************************************************************)
SetSizedImage ==
    \E size \in {0, MaxImageSize} :
        LET a == Alloc(heap, ImageBuf("data"))
            r == mlt_frame_set_image(frame, a.heap, a.ptr, size, TRUE)
        IN  /\ frame.image.data = NULL
            /\ Len(r.heap) <= MaxHeap
            /\ frame' = r.f
            /\ heap' = r.heap
            /\ ret' = [op |-> "set_image", val |-> 0]
            /\ UNCHANGED <<clones, closed, hist, pushedImage, pushedAudio>>

NextSizes ==
    \/ SetSizedImage
    \/ (frame.alpha.data = NULL /\ SetAlpha)
    \/ SetFormat
    \/ SetImageFormat
    \/ CloneDeep

SpecSizes == Init /\ [][NextSizes]_vars

(***************************************************************************)
(* The source of shallow clones goes on being used: its image and audio    *)
(* are set again and its image is pulled.                                  *)
(***************************************************************************)
CloneAlias == CloneAs({FALSE}, MaxClones)

NextAlias ==
    \/ ((frame.image.data = NULL \/ clones # <<>>) /\ SetImage)
    \/ ((frame.audio.data = NULL \/ clones # <<>>) /\ SetAudio)
    \/ (clones = <<>> /\ PushHandler)
    \/ (clones # <<>> /\ GetImageDefault)
    \/ CloneAlias

SpecAlias == Init /\ [][NextAlias]_vars

(***************************************************************************)
(* The test-card predicates (SpecTest, Spec).                              *)
(***************************************************************************)
ImageSideCleared(f) ==
    [f EXCEPT !.stack_image = <<>>, !.image = NoBlob, !.test_image = 0]

AudioSideCleared(f) ==
    [f EXCEPT !.stack_audio = <<>>, !.audio = NoBlob, !.test_audio = 0]

ExpectTestCard ==
    (Len(frame.stack_image) = 0 /\ frame.image.data = NULL) \/ frame.test_image # 0

ExpectTestAudio ==
    (Len(frame.stack_audio) = 0 /\ frame.audio.data = NULL) \/ frame.test_audio # 0

\* C3: in every reachable state mlt_frame_is_test_card is true exactly when
\* (the image stack is empty and no image buffer is present) or test_image
\* is set, and mlt_frame_is_test_audio exactly when (the audio stack is
\* empty and no audio buffer is present) or test_audio is set; this is what
\* the two queries report, and neither depends on the other side's stack,
\* buffer or flag.
C3_TestPredicates ==
    /\ mlt_frame_is_test_card(frame) <=> ExpectTestCard
    /\ mlt_frame_is_test_audio(frame) <=> ExpectTestAudio
    /\ ret.op = "is_test_card" => (ret.val <=> ExpectTestCard)
    /\ ret.op = "is_test_audio" => (ret.val <=> ExpectTestAudio)
    /\ mlt_frame_is_test_card(AudioSideCleared(frame)) <=> mlt_frame_is_test_card(frame)
    /\ mlt_frame_is_test_audio(ImageSideCleared(frame)) <=> mlt_frame_is_test_audio(frame)

\* The image query answers true only because of the flag (a handler waits
\* and an image is cached), while the audio side is not a test card.
C3_Witness ==
    /\ ret.op = "is_test_card"
    /\ ret.val
    /\ frame.test_image # 0
    /\ frame.stack_image # <<>>
    /\ frame.image.data # NULL
    /\ ~mlt_frame_is_test_audio(frame)

\* C4 as stated: on a frame with an empty image stack and no cached image
\* mlt_frame_is_test_card is true, and after a handler is pushed it is false.
C4_PushClearsTestCard ==
    [][(/\ ret'.op = "push_get_image"
        /\ frame.stack_image = <<>>
        /\ frame.image.data = NULL)
       => (mlt_frame_is_test_card(frame) /\ ~mlt_frame_is_test_card(frame'))]_vars

\* C4 amended: on a frame with an empty image stack and no cached image
\* mlt_frame_is_test_card is true, and after a handler is pushed it is
\* false provided the test_image flag is not set; with the flag set it
\* stays true.
C4_PushClearsTestCardUnlessFlagged ==
    [][(/\ ret'.op = "push_get_image"
        /\ frame.stack_image = <<>>
        /\ frame.image.data = NULL)
       => /\ mlt_frame_is_test_card(frame)
          /\ mlt_frame_is_test_card(frame') <=> (frame.test_image # 0)]_vars

\* A handler was pushed on a frame that had no handler, no image and no
\* flag, and the frame is no longer a test card.
C4_Witness ==
    /\ ret.op = "push_get_image"
    /\ Len(frame.stack_image) = 1
    /\ frame.image.data = NULL
    /\ frame.test_image = 0
    /\ ~mlt_frame_is_test_card(frame)

(***************************************************************************)
(* The image pull (SpecTestCard).                                          *)
(***************************************************************************)

\* C7 as stated: of two consecutive mlt_frame_get_image calls, the first on
\* a frame with an empty image stack and no cached image, the second
\* returns the buffer, the width and the height the first returned.
C7_SecondPullSame ==
    [][(/\ ret.op = "get_image"
        /\ ret.fresh
        /\ ret.hasbuf
        /\ ret'.op = "get_image"
        /\ ret'.hasbuf)
       => (/\ ret'.buffer = ret.buffer
           /\ ret'.width = ret.width
           /\ ret'.height = ret.height)]_vars

\* C8: a mlt_frame_get_image call with a non-null buffer out-parameter
\* returns 0 and a non-null buffer, whatever the handler, the cache and the
\* test-card producer did.
C8_PullSucceeds ==
    (ret.op = "get_image" /\ ret.hasbuf) => (ret.error = 0 /\ ret.buffer # NULL)

\* The popped handler failed, the test-card producer gave no frame, and the
\* call returned 0 with the placeholder.
C8_Witness ==
    /\ ret.op = "get_image"
    /\ ret.hasbuf
    /\ ret.h = "err"
    /\ ret.error = 0
    /\ ret.buffer # NULL
    /\ frame.test_image = 1
    /\ frame.test_card_frame = <<>>
    /\ frame.image.data = ret.buffer

(***************************************************************************)
(* The audio pull (SpecAudio).                                             *)
(***************************************************************************)

\* C9 as stated: when the popped audio handler fails, mlt_frame_get_audio
\* still hands the caller a non-null buffer.
C9_FailedHandlerRecovered ==
    (ret.op = "get_audio" /\ ret.h = "fail") => ret.buffer # NULL

Unspecified(ask) ==
    /\ ask.format = "none"
    /\ ask.frequency <= 0
    /\ ask.channels <= 0
    /\ ask.samples <= 0

\* What the silence branch is to return for a request.
SilenceFormat(ask) == IF ask.format = "none" THEN "s16" ELSE ask.format

SilenceSamples(ask) == IF ask.samples <= 0 THEN DefaultSamples ELSE ask.samples

SilenceChannels(ask) == IF ask.channels <= 0 THEN DefaultChannels ELSE ask.channels

SilenceFrequency(ask) == IF ask.frequency <= 0 THEN DefaultFrequency ELSE ask.frequency

\* C10: an audio pull on a frame with no audio handler and no cached audio
\* returns, for each parameter on its own, the requested value when it is
\* given and the default (16-bit signed, 1920 samples, 2 channels,
\* 48000 Hz) when it is not, with a live zero-filled buffer of
\* mlt_audio_format_size bytes for these; the buffer and the four
\* parameters are cached on the frame and test_audio is set.
C10_SilenceDefaults ==
    (ret.op = "get_audio" /\ ret.fresh) =>
        /\ ret.error = 0
        /\ ret.format = SilenceFormat(ret.ask)
        /\ ret.samples = SilenceSamples(ret.ask)
        /\ ret.channels = SilenceChannels(ret.ask)
        /\ ret.frequency = SilenceFrequency(ret.ask)
        /\ Unspecified(ret.ask) =>
              /\ ret.format = "s16"
              /\ ret.samples = 1920
              /\ ret.channels = 2
              /\ ret.frequency = 48000
        /\ ret.buffer \in 1..Len(heap)
        /\ heap[ret.buffer].kind = "audio"
        /\ heap[ret.buffer].frees = 0
        /\ heap[ret.buffer].nz = Zeros
        /\ heap[ret.buffer].size =
              mlt_audio_format_size(ret.format, ret.samples, ret.channels)
        /\ frame.audio = Blob(ret.buffer, heap[ret.buffer].size, TRUE)
        /\ frame.audio_format = ret.format
        /\ frame.audio_samples = ret.samples
        /\ frame.audio_channels = ret.channels
        /\ frame.audio_frequency = ret.frequency
        /\ frame.test_audio = 1

\* The pull that specified nothing got the defaults.
C10_Witness ==
    /\ ret.op = "get_audio"
    /\ ret.fresh
    /\ Unspecified(ret.ask)
    /\ ret.samples = DefaultSamples
    /\ ret.channels = DefaultChannels
    /\ ret.frequency = DefaultFrequency
    /\ ret.format = "s16"
    /\ frame.test_audio = 1
    /\ frame.audio.data = ret.buffer

(***************************************************************************)
(* The one-shot volume (SpecVolume).                                       *)
(***************************************************************************)

\* The pull as it stands before the volume block.
BeforeVolume(io, o) == get_audio_popped(mlt_frame_pop_audio(frame), heap, io, o)

Returned(r) == 1..(r.samples * r.channels)

\* C11: for an audio pull whose achieved format is 16-bit signed, with a
\* buffer and with meta.volume present, volume 0.0 leaves every returned
\* sample zero and volume 1.0 leaves the buffer as it was before the volume
\* block; in both cases meta.volume is absent after the pull, and a pull
\* that finds no meta.volume scales nothing.
C11_VolumeOnce ==
    [][ret'.op = "get_audio" =>
        /\ (/\ frame.meta_volume # <<>>
            /\ ret'.format = "s16"
            /\ ret'.buffer # NULL) =>
               /\ frame'.meta_volume = <<>>
               /\ frame.meta_volume[1] = 0 =>
                      DOMAIN SamplesOf(heap', ret'.buffer) \cap Returned(ret') = {}
               /\ frame.meta_volume[1] = 2 =>
                      heap' = BeforeVolume(ret'.ask, ret'.o).heap
        /\ frame.meta_volume = <<>> =>
               /\ heap' = BeforeVolume(ret'.ask, ret'.o).heap
               /\ frame'.meta_volume = <<>>
      ]_vars

\* A pull that muted a buffer holding sound: the handler's samples were not
\* zero, the volume was 0.0, and the attribute is gone.
C11_Witness ==
    /\ ret.op = "get_audio"
    /\ ret.h = "ok_s16"
    /\ ret.o.data # Zeros
    /\ ret.format = "s16"
    /\ ret.buffer \in 1..Len(heap)
    /\ heap[ret.buffer].nz = Zeros
    /\ frame.meta_volume = <<>>
    /\ frame.audio.data = ret.buffer

(***************************************************************************)
(* The waveform (SpecWave).                                                *)
(***************************************************************************)

\* C12 as stated: mlt_frame_get_waveform returns an all-zero bitmap whenever
\* the PCM buffer the audio pull gave is silent, for every w > 0 and h > 0.
C12_SilentWaveformZero ==
    (/\ ret.op = "get_waveform"
     /\ ret.w > 0
     /\ ret.h > 0
     /\ ret.val # NULL
     /\ ~ret.wild
     /\ ret.data = Zeros)
    => \A x \in DOMAIN heap[ret.val].px : heap[ret.val].px[x] = 0

\* C13: mlt_frame_get_waveform returns NULL and stores no waveform
\* attribute whenever w * h <= 0: the attribute and the heap's bitmaps are
\* what they were before the call.
C13_DegenerateWaveform ==
    [][(ret'.op = "get_waveform" /\ ret'.w * ret'.h <= 0) =>
        /\ ret'.val = NULL
        /\ frame'.waveform = frame.waveform
        /\ \A p \in 1..Len(heap') : heap'[p].kind = "bitmap" =>
               p \in 1..Len(heap) /\ heap[p] = heap'[p]
      ]_vars

\* A degenerate request made after a waveform was stored: nothing is
\* returned and the stored one stays.
C13_Witness ==
    /\ ret.op = "get_waveform"
    /\ ret.w * ret.h <= 0
    /\ ret.w < 0
    /\ ret.val = NULL
    /\ frame.waveform.data # NULL
    /\ frame.test_audio = 1

(***************************************************************************)
(* Clones (SpecDeep, SpecShallow, SpecOwn, SpecCloneStacks).               *)
(***************************************************************************)
Live(hp, p) == p \in 1..Len(hp) /\ hp[p].frees = 0

Released(hp, p) == p \in 1..Len(hp) /\ hp[p].frees = 1

\* Whether a clone of this kind carries the image, the audio.
WithImage(kind) == kind \in {"full", "image"}

WithAudio(kind) == kind \in {"full", "audio"}

\* The blob of c is a copy made in hp2 of the blob of f in hp: a new live
\* buffer with the same content, with a destructor.
CopiedTo(c_blob, f_blob, hp, hp2) ==
    /\ c_blob.data # NULL
    /\ c_blob.data # f_blob.data
    /\ c_blob.data \notin 1..Len(hp)
    /\ Live(hp2, c_blob.data)
    /\ c_blob.destroy
    /\ hp2[c_blob.data] = hp[f_blob.data]

\* What a clone owns stays as it is and live.
OwnedKept(c, hp, hp2) ==
    /\ c.image.destroy => (Live(hp2, c.image.data) /\ hp2[c.image.data] = hp[c.image.data])
    /\ c.audio.destroy => (Live(hp2, c.audio.data) /\ hp2[c.audio.data] = hp[c.audio.data])

ClonesKept ==
    \A i \in 1..Len(clones) :
        (clones[i].ref_count > 0 /\ clones'[i].ref_count > 0) =>
            /\ clones'[i] = clones[i]
            /\ OwnedKept(clones[i], heap, heap')

LiveShallow(cs) ==
    {i \in 1..Len(cs) : cs[i].cloned_frame # NULL /\ cs[i].ref_count > 0}

\* Every reference to the source is given up.
AllClosed(cs, c) == c /\ LiveShallow(cs) = {}

\* C15: a shallow clone's image and audio pointers are the source's, and
\* whatever the order of the owner's close and the clones' closes, a
\* buffer is released by a close only when the owner and every shallow
\* clone have closed, and the source's buffers are released then.
C15_SharedUntilLastClose ==
    [][ /\ (ret'.op = "clone" /\ ~ret'.is_deep) =>
            /\ WithImage(ret'.kind) =>
                   Last(clones').image = Blob(frame.image.data, frame.image.size, FALSE)
            /\ WithAudio(ret'.kind) =>
                   Last(clones').audio = Blob(frame.audio.data, frame.audio.size, FALSE)
        /\ ret'.op \in {"close", "close_clone"} =>
            /\ \A p \in 1..Len(heap) :
                   (heap[p].frees = 0 /\ heap'[p].frees # 0) => AllClosed(clones', closed')
            /\ AllClosed(clones', closed') =>
                   /\ frame.image.destroy => Released(heap', frame.image.data)
                   /\ frame.audio.destroy => Released(heap', frame.audio.data)
            /\ \A i \in LiveShallow(clones') :
                   /\ clones'[i].image.data # NULL => Live(heap', clones'[i].image.data)
                   /\ clones'[i].audio.data # NULL => Live(heap', clones'[i].audio.data)
      ]_vars

\* The clone was closed first: the owner still holds the frame and the
\* buffer the clone aliased is live.
C15_Witness ==
    /\ ret.op = "close_clone"
    /\ ~closed
    /\ Len(clones) = 1
    /\ clones[1].ref_count = 0
    /\ clones[1].image.data # NULL
    /\ clones[1].image.data = frame.image.data
    /\ frame.image.destroy
    /\ Live(heap, frame.image.data)

Counted(f) == f.ref_count >= 0 /\ f.torn = (IF f.ref_count = 0 THEN 1 ELSE 0)

\* C16: a close releases exactly one reference and tears the frame down
\* only when the count reaches zero; a shallow clone adds one reference to
\* the source and gives it back once, when the clone is torn down.  The
\* source's count is (1 if its owner has not closed it, else 0) plus the
\* number of its live shallow clones, no count is negative and no frame is
\* torn down twice.
C16_CountedReferences ==
    [][ /\ Counted(frame')
        /\ \A i \in 1..Len(clones') : Counted(clones'[i]) /\ clones'[i].ref_count <= 1
        /\ frame'.ref_count =
               (IF closed' THEN 0 ELSE 1) + Cardinality(LiveShallow(clones'))
        /\ ret'.op = "close" => frame'.ref_count = frame.ref_count - 1
        /\ ret'.op = "close_clone" =>
               /\ clones'[ret'.val].ref_count = clones[ret'.val].ref_count - 1
               /\ frame'.ref_count = frame.ref_count - 1
        /\ ret'.op = "clone" => frame'.ref_count = frame.ref_count + 1
        /\ ret'.op \notin {"close", "close_clone", "clone"} =>
               frame'.ref_count = frame.ref_count
      ]_vars

\* The owner has closed the frame and two shallow clones keep it alive.
C16_Witness ==
    /\ closed
    /\ frame.ref_count = 2
    /\ frame.torn = 0
    /\ Cardinality(LiveShallow(clones)) = 2

\* The buffers a frame is to release.
Owned(f) ==
    {b.data : b \in {x \in {f.image, f.alpha, f.audio, f.waveform} : x.destroy}}

\* The buffers of a frame are live while it is, released once it is torn
\* down.
OwnedAsDue(f, hp) ==
    \A p \in Owned(f) : IF f.torn = 0 THEN Live(hp, p) ELSE Released(hp, p)

\* C17: every buffer installed on a frame with a destructor is released
\* exactly once: when the frame's entry is overwritten or when the frame is
\* torn down, never twice, and none is left once every frame is closed; a
\* buffer belongs to one frame only.
C17_ReleasedOnce ==
    [][ /\ \A p \in 1..Len(heap') : heap'[p].frees <= 1
        /\ OwnedAsDue(frame', heap')
        /\ \A i \in 1..Len(clones') :
               /\ OwnedAsDue(clones'[i], heap')
               /\ Owned(clones'[i]) \cap Owned(frame') = {}
        /\ \A p \in Owned(frame) \ Owned(frame') : Released(heap', p)
        /\ \A p \in 1..Len(heap) :
               (heap[p].frees = 0 /\ heap'[p].frees # 0) =>
                   \/ p \in Owned(frame)
                   \/ \E i \in 1..Len(clones) : p \in Owned(clones[i])
      ]_vars

\* Everything is closed: the placeholder the pull made and the copy the
\* deep clone made are both released.
C17_Witness ==
    /\ closed
    /\ frame.torn = 1
    /\ frame.test_image = 1
    /\ Released(heap, frame.image.data)
    /\ Len(clones) = 1
    /\ clones[1].torn = 1
    /\ clones[1].image.destroy
    /\ Released(heap, clones[1].image.data)
    /\ \E p \in 1..Len(heap) : Released(heap, p) /\ p \notin {frame.image.data, frame.audio.data, clones[1].image.data}

\* C19: the frame any clone returns has empty image, audio and service
\* stacks whatever the source's stacks hold, and the clone leaves the
\* source's stacks as they were.
C19_CloneStacksEmpty ==
    [][ret'.op = "clone" =>
        /\ Last(clones').stack_image = <<>>
        /\ Last(clones').stack_audio = <<>>
        /\ Last(clones').stack_service = <<>>
        /\ frame'.stack_image = frame.stack_image
        /\ frame'.stack_audio = frame.stack_audio
        /\ frame'.stack_service = frame.stack_service
      ]_vars

C19_Witness ==
    /\ ret.op = "clone"
    /\ ~ret.is_deep
    /\ frame.stack_image # <<>>
    /\ frame.stack_audio # <<>>
    /\ frame.stack_service # <<>>
    /\ Last(clones).stack_image = <<>>
    /\ Last(clones).stack_service = <<>>
    /\ Last(clones).image.data # NULL

(***************************************************************************)
(* Replacing the image (SpecReplace).                                      *)
(***************************************************************************)

\* C18 as stated: after mlt_frame_replace_image the image stack is empty,
\* whatever it held (handlers, frames, services, integers, 0 among them),
\* and the next mlt_frame_get_image with no format asked for returns the
\* substituted image, width, height and format.
C18_ReplaceDiscardsAll ==
    [][ /\ ret'.op = "replace_image" => frame'.stack_image = <<>>
        /\ (/\ ret.op = "replace_image"
            /\ frame.image.data # NULL
            /\ ret'.op = "get_image") =>
               /\ ret'.buffer = frame.image.data
               /\ ret'.width = frame.width
               /\ ret'.height = frame.height
               /\ ret'.format = frame.format
      ]_vars

(***************************************************************************)
(* The per-service sub-maps (SpecUnique).                                  *)
(***************************************************************************)
Found(f, unique) == IF unique \in DOMAIN f.unique THEN f.unique[unique] ELSE NULL

\* C20: mlt_frame_unique_properties creates the sub-map on the first
\* request for a unique id and returns that sub-map on every later request
\* for the id; different ids have different sub-maps;
\* mlt_frame_get_unique_properties returns NULL when the id has no sub-map
\* and creates nothing.
C20_UniqueProperties ==
    [][ /\ ret'.op = "unique_properties" =>
            /\ ret'.val # NULL
            /\ Live(heap', ret'.val)
            /\ Found(frame', ret'.id) = ret'.val
            /\ \A u \in UniqueIds \ {ret'.id} : Found(frame', u) = Found(frame, u)
            /\ IF Found(frame, ret'.id) # NULL
               THEN ret'.val = Found(frame, ret'.id) /\ frame' = frame /\ heap' = heap
               ELSE ret'.val \notin 1..Len(heap)
        /\ ret'.op = "get_unique_properties" =>
            /\ ret'.val = Found(frame, ret'.id)
            /\ frame' = frame
            /\ heap' = heap
        /\ \A u \in DOMAIN frame'.unique, v \in DOMAIN frame'.unique :
               u # v => frame'.unique[u] # frame'.unique[v]
      ]_vars

\* A second request for an id returned the sub-map made by the first,
\* while another id has its own and a third has none.
C20_Witness ==
    /\ ret.op = "unique_properties"
    /\ ret.val = Len(heap) - 1
    /\ Cardinality(DOMAIN frame.unique) = 2
    /\ frame.unique[ret.id] = ret.val
    /\ Live(heap, ret.val)

(***************************************************************************)
(* The alpha channel (SpecAlpha).                                          *)
(***************************************************************************)

\* C21 as stated: with the image format rgba, mlt_frame_get_alpha returns
\* NULL and mlt_frame_get_alpha_size returns NULL and leaves 0 in the
\* caller's size, even with an alpha buffer stored; with any other format
\* both return the stored alpha buffer, the second with its stored size.
C21_AlphaHiddenForRgba ==
    [][ /\ ret'.op = "get_alpha" =>
            ret'.val = (IF frame.format = "rgba" THEN NULL ELSE frame.alpha.data)
        /\ ret'.op = "get_alpha_size" =>
            /\ (frame.format = "rgba" /\ frame.alpha.data # NULL) =>
                   (ret'.val = NULL /\ ret'.size = 0)
            /\ frame.format # "rgba" =>
                   (ret'.val = frame.alpha.data /\ ret'.size = frame.alpha.size)
      ]_vars

(***************************************************************************)
(* What a handler's pull leaves on the frame (Spec).                       *)
(***************************************************************************)

\* C22 as stated: after an image pull whose handler succeeded, the buffer
\* it returned is the frame's cached image, whether or not the handler
\* stored it itself, so the next pull with no handler on the stack returns
\* that buffer from the cache and synthesizes nothing.
C22_HandlerImageCached ==
    [][ (/\ ret.op = "get_image"
         /\ ret.h \in {"ok_store", "ok_nostore"}
         /\ ret.error = 0
         /\ ret.buffer # NULL
         /\ frame.stack_image = <<>>
         /\ ret'.op = "get_image"
         /\ ret'.hasbuf) =>
            /\ frame.image.data = ret.buffer
            /\ frame'.test_image = frame.test_image
            /\ ~frame.convert_image => ret'.buffer = ret.buffer
      ]_vars

(***************************************************************************)
(* The muted frame (SpecMuted).                                            *)
(***************************************************************************)

C28_MutedPullPops ==
    [][ ret'.op = "get_audio" =>
            /\ frame'.stack_audio =
                   (IF frame.stack_audio = <<>> THEN <<>> ELSE Front(frame.stack_audio))
            /\ (ret'.muted /\ frame.audio.data # NULL) => heap' = heap
      ]_vars

\* The frame was muted with one handler waiting, pulled, and the flag
\* cleared: nothing is left for the next pull to run.
C28_Witness ==
    /\ ret.op = "set_test_audio"
    /\ ret.val = 0
    /\ frame.stack_audio = <<>>
    /\ pushedAudio = <<>>
    /\ frame.audio.data # NULL
    /\ Len(heap) = 1
    /\ SamplesOf(heap, frame.audio.data) = Zeros
    /\ heap[1].frees = 0

(***************************************************************************)
(* The placeholder (SpecPlaceholder).                                      *)
(***************************************************************************)

\* The buffer p was made by the fallback synthesis of this step.
Synthesized(hp, hp2, p) ==
    /\ p \notin 1..Len(hp)
    /\ p \in 1..Len(hp2)
    /\ hp2[p].kind = "image"
    /\ hp2[p].fill \in {"white", "checker"}

\* The extent the placeholder is to have: the requested one, else the one
\* the frame last had, else the default.
Expected(ask, known, default) ==
    IF ask # 0 THEN ask ELSE IF known # 0 THEN known ELSE default

\* C24 as stated: the placeholder made when no test-card producer is
\* usable has the requested width and height, or the frame's last-known
\* ones when the request is zero, or 720x576 when neither is known; the
\* buffer, its width, height and format are cached on the frame and
\* test_image is set.
C24_PlaceholderGeometry ==
    [][ (ret'.op = "get_image" /\ Synthesized(heap, heap', ret'.buffer)) =>
            /\ ret'.width = Expected(ret'.ask.width, frame.width, DefaultWidth)
            /\ ret'.height = Expected(ret'.ask.height, frame.height, DefaultHeight)
            /\ frame'.image.data = ret'.buffer
            /\ frame'.image.destroy
            /\ frame'.width = ret'.width
            /\ frame'.height = ret'.height
            /\ frame'.format = ret'.format
            /\ frame'.test_image = 1
      ]_vars

\* C25: the placeholder is a flat white fill exactly when test_audio is
\* set at the time of the image pull, and a checkerboard otherwise; an
\* audio pull leaves the cached placeholder as it is.
C25_WhiteWhenTestAudio ==
    [][ /\ (ret'.op = "get_image" /\ Synthesized(heap, heap', ret'.buffer)) =>
            heap'[ret'.buffer].fill = (IF frame.test_audio # 0 THEN "white" ELSE "checker")
        /\ ret'.op = "get_audio" =>
            /\ frame'.image = frame.image
            /\ frame'.test_image = frame.test_image
            /\ frame.image.data # NULL => heap'[frame.image.data] = heap[frame.image.data]
      ]_vars

\* Nothing was on the frame; the audio was pulled first and the image
\* after it: the placeholder is white.
C25_Witness ==
    /\ ret.op = "get_image"
    /\ frame.stack_image = <<>>
    /\ frame.test_audio = 1
    /\ frame.test_image = 1
    /\ Len(heap) = 2
    /\ heap[1].kind = "audio"
    /\ ret.buffer = 2
    /\ heap[2].fill = "white"

(***************************************************************************)
(* The service stack at teardown (SpecServices).                           *)
(***************************************************************************)

\* The handles of a stack, oldest first.
HandlesOf(dq) == [i \in 1..Len(dq) |-> SlotAddr(dq[i])]

\* C26: the close that releases the last reference of a frame releases
\* every handle on its service stack once, newest first, and leaves the
\* stack empty; a close that leaves a reference releases no handle.
C26_ServicesReleasedAtTeardown ==
    [][ /\ (frame.torn = 0 /\ frame'.torn = 1) =>
            /\ frame'.closed_services = Reversed(HandlesOf(frame.stack_service))
            /\ frame'.stack_service = <<>>
        /\ frame'.torn = frame.torn =>
            /\ frame'.closed_services = frame.closed_services
            /\ ret'.op \in {"close", "close_clone"} =>
                   frame'.stack_service = frame.stack_service
        /\ frame'.torn = 0 => frame'.closed_services = <<>>
        /\ \A i \in 1..Len(clones') : clones'[i].closed_services = <<>>
      ]_vars

\* The owner closed the frame while a shallow clone held it, and the
\* clone's close released the two handles, the later one first.
C26_Witness ==
    /\ ret.op = "close_clone"
    /\ closed
    /\ frame.torn = 1
    /\ frame.closed_services = <<2, 1>>
    /\ frame.stack_service = <<>>

(***************************************************************************)
(* What a deep clone copies (SpecSizes).                                   *)
(***************************************************************************)

\* The blob is a copy of size bytes made by this step.
NewCopy(blob, size, hp, hp2) ==
    /\ blob.data \notin 1..Len(hp)
    /\ Live(hp2, blob.data)
    /\ blob.size = size
    /\ blob.destroy

\* C27: a deep clone does not copy an image whose format is movit: the
\* clone then has no image and no alpha; for any other format the image
\* copy has the recorded size, or mlt_image_format_size(format, width,
\* height) when none was recorded, and the alpha channel, when the frame
\* has one, is copied with its recorded size, or width * height when none
\* was recorded.
C27_DeepCopySizes ==
    [][ (/\ ret'.op = "clone"
         /\ ret'.is_deep
         /\ WithImage(ret'.kind)
         /\ frame.image.data # NULL) =>
            IF frame.format = "movit"
            THEN Last(clones').image = NoBlob /\ Last(clones').alpha = NoBlob
            ELSE /\ NewCopy(Last(clones').image,
                            IF frame.image.size # 0
                            THEN frame.image.size
                            ELSE mlt_image_format_size(frame.format, frame.width,
                                                       frame.height),
                            heap, heap')
                 /\ IF mlt_frame_get_alpha(frame) # NULL
                    THEN /\ NewCopy(Last(clones').alpha,
                                    IF frame.alpha.size # 0
                                    THEN frame.alpha.size
                                    ELSE frame.width * frame.height,
                                    heap, heap')
                         /\ Last(clones').alpha.data # Last(clones').image.data
                    ELSE Last(clones').alpha = NoBlob
      ]_vars

\* An image and an alpha channel stored without sizes were copied: the
\* copies have the sizes computed from the format and the geometry.
C27_Witness ==
    /\ ret.op = "clone"
    /\ ret.is_deep
    /\ frame.format = "rgb"
    /\ frame.image.size = 0
    /\ frame.alpha.data # NULL
    /\ frame.alpha.size = 0
    /\ Last(clones).image.size = frame.width * frame.height * 3
    /\ Last(clones).alpha.size = frame.width * frame.height
    /\ Last(clones).alpha.destroy

(***************************************************************************)
(* The volume of a pull that is not 16-bit (SpecVolume).                   *)
(***************************************************************************)

\* C29: an audio pull whose achieved format is not 16-bit signed, or whose
\* buffer is null, neither applies nor clears a present meta.volume: the
\* samples are as the branch of the pull left them and the attribute is
\* kept; the first later pull that yields 16-bit audio consumes it.
C29_VolumeKeptForOtherFormats ==
    [][ (ret'.op = "get_audio" /\ frame.meta_volume # <<>>) =>
            IF ret'.format # "s16" \/ ret'.buffer = NULL
            THEN /\ frame'.meta_volume = frame.meta_volume
                 /\ heap' = BeforeVolume(ret'.ask, ret'.o).heap
            ELSE frame'.meta_volume = <<>>
      ]_vars

\* A handler returned float samples while the volume was 0.0: the samples
\* are not silenced and the attribute is still there.
C29_Witness ==
    /\ ret.op = "get_audio"
    /\ ret.format = "f32le"
    /\ ret.buffer # NULL
    /\ frame.meta_volume = <<0>>
    /\ SamplesOf(heap, ret.buffer) # Zeros

(***************************************************************************)
(* Where the rendering writes (SpecWave).                                  *)
(***************************************************************************)

\* C30 as stated: for w > 0 and h > 0, whatever the channel count, the
\* sample count and the sample values (-32768 among them) of the audio the
\* pull returned, every store of the rendering of mlt_frame_get_waveform
\* is at an index of the w * h bitmap.
C30_WaveformWritesInside ==
    (/\ ret.op = "get_waveform"
     /\ ret.w > 0
     /\ ret.h > 0
     /\ ret.h_audio # "fail")
    => ~ret.wild

(***************************************************************************)
(* The buffers a shallow clone points to (SpecAlias).                      *)
(***************************************************************************)

\* C31 as stated: the image and audio pointers of a live shallow clone
\* refer to unreleased buffers, whatever is done to the source while the
\* clone is alive: mlt_frame_set_image, mlt_frame_set_audio, or a pull
\* that synthesizes over the source's cached image.
C31_AliasedBuffersLive ==
    \A i \in LiveShallow(clones) :
        /\ clones[i].image.data # NULL => Live(heap, clones[i].image.data)
        /\ clones[i].audio.data # NULL => Live(heap, clones[i].audio.data)

(***************************************************************************)
(* The test-card frame a pull keeps (SpecTestCard).                        *)
(***************************************************************************)

\* The image the kept test-card frame owns, NULL when there is none.
TestCardImage(f) ==
    IF f.test_card_frame # <<>> /\ f.test_card_frame[1].image.destroy
    THEN f.test_card_frame[1].image.data
    ELSE NULL

\* C32 as stated: a frame keeps at most one test-card frame, and a later
\* pull does not release the test-card frame whose image an earlier pull
\* returned: that image stays live; the test_card_producer attribute is
\* dropped only by a pull that got no frame from it, and pulls that
\* synthesize without a producer make the placeholder and leave the kept
\* test-card frame alone.
C32_TestCardFrameKept ==
    [][ /\ Len(frame'.test_card_frame) <= 1
        /\ (TestCardImage(frame) # NULL /\ Live(heap, TestCardImage(frame))) =>
               Live(heap', TestCardImage(frame))
        /\ (frame.test_card_producer # NULL /\ frame'.test_card_producer = NULL) =>
               (ret'.op = "get_image" /\ frame'.test_card_frame = frame.test_card_frame)
        /\ (/\ ret'.op = "get_image"
            /\ ret'.hasbuf
            /\ frame.test_card_producer = NULL
            /\ Synthesizes(frame, TRUE, ret'.h)) =>
               (/\ Synthesized(heap, heap', ret'.buffer)
                /\ frame'.test_card_frame = frame.test_card_frame)
      ]_vars

====
